---- MODULE Spec2Model ----
(***************************************************************************)
(* Order-lifecycle orchestrator of trade_kabu (src/trader/autotrader.py),  *)
(* with the Order entity (src/trader/models.py) and the two broker         *)
(* adapters (src/trader/brokers.py).                                       *)
(*                                                                         *)
(* Every Python method is an operator from one orchestrator snapshot `s`   *)
(* to the SET of snapshots the method can end in: the broker's answers     *)
(* (status, filled quantity, cancel result, a raised exception) and the    *)
(* clock readings are the nondeterminism.  A raised exception is carried   *)
(* in s.raised and skips the rest of the operation, as Python's unwinding  *)
(* does (autotrader.py has no try/except).  s.calls is the list of broker  *)
(* calls the running operation has made so far; s.mono is the reading of   *)
(* time.monotonic() a tick took for its polling step in FORCE_EXITING and  *)
(* s.since the last forced-exit poll time it compared that reading with.   *)
(*                                                                         *)
(* Absent values (Python None) are written 0: order indices, order ids,    *)
(* prices, sides and timestamps are all >= 1 when present.                 *)
(***************************************************************************)
EXTENDS Integers, Sequences, FiniteSets, TLC

\* ---------------------------------------------------------------- bounds
MaxOrders == 5         \* Order instances created in one trade

\* ------------------------------------------- AutoTraderConfig (defaults)
force_exit_poll_interval_sec == 3
force_exit_max_duration_sec == 600
force_exit_start_before_close_min == 30
force_exit_deadline_before_close_min == 10
market_close_hour == 15
market_close_minute == 0
reconcile_on_success == TRUE   \* no caller in the repository sets it

\* ----------------------------------------------------------------- enums
AutoTraderState ==
    {"IDLE", "ENTRY_WAIT", "ENTRY_FILLED", "EXIT_WAIT", "FORCE_EXITING",
     "EXIT_FILLED", "ERROR"}
OrderRole == {"ENTRY", "EXIT_PROFIT", "EXIT_LOSS", "EXIT_MARKET"}
OrderStatus ==
    {"NEW", "SENT", "PARTIAL", "FILLED", "CANCELED", "REJECTED", "ERROR"}

\* ReverseLimitUnderOver
ReverseLimitUnderOver == [OVER |-> 1, UNDER |-> 2]

\* ------------------------------------------------------ sampled inputs
\* wall clock, minutes of the day: 14:29, 14:30, 14:50, 14:51
WallSamples == {869, 870, 890, 891}
\* monotonic clock, seconds: gaps of 0 and 1 (inside the poll interval),
\* 600 (the watchdog limit, not past it) and 601 (past it) occur
MonoSamples == {1, 601, 602}
Sides == {0, 1}
\* entry quantities: one lot (cannot fill partly) and two
EntryQtys == {1, 2}
\* DemoBroker(fills_after_polls=...)
FillsAfterPolls == {0, 1}
EntryKinds == {[order_type |-> "LIMIT", price |-> 100]}
ProfitPrices == {105}
LossPrices == {95}
Brokers == {"demo", "kabu"}

VARIABLES
    state,                  \* AutoTrader.state
    insts,                  \* every Order instance created, by identity
    orders,                 \* AutoTrader.orders: role -> instance (0: no key)
    order_keys,             \* insertion order of the keys of AutoTrader.orders
    entry_order,            \* AutoTrader.entry_order
    profit_price,           \* AutoTrader._profit_price
    loss_price,             \* AutoTrader._loss_price
    force_exit_started_at,  \* AutoTrader._force_exit_started_at
    last_force_exit_poll,   \* AutoTrader._last_force_exit_poll
    next_id,                \* next identifier the broker hands out
    poll_counts,            \* DemoBroker._poll_counts
    broker,                 \* which adapter AutoTrader.broker is
    fills_after_polls,      \* DemoBroker.fills_after_polls
    force_exit_use_market_close, \* AutoTraderConfig flag
    raised,                 \* the last operation ended by an exception
    _confirmed_order_ids,   \* AutoTrader._confirmed_order_ids
    input,                  \* the arguments a pure function is called with
    output                  \* <<what it returned>> (<<>> before the call)

vars == <<state, insts, orders, order_keys, entry_order, profit_price,
          loss_price, force_exit_started_at, last_force_exit_poll, next_id,
          poll_counts, broker, fills_after_polls,
          force_exit_use_market_close, raised, _confirmed_order_ids,
          input, output>>

\* the orchestrator, its orders and the broker behind it, as one snapshot
\* at the start of an operation
Cur ==
    [state |-> state, insts |-> insts, orders |-> orders,
     order_keys |-> order_keys, entry_order |-> entry_order,
     profit_price |-> profit_price, loss_price |-> loss_price,
     started_at |-> force_exit_started_at,
     last_poll |-> last_force_exit_poll,
     next_id |-> next_id, poll_counts |-> poll_counts,
     confirmed_order_ids |-> _confirmed_order_ids,
     reconcile_on_success |-> reconcile_on_success,
     calls |-> <<>>, mono |-> 0, since |-> 0, raised |-> FALSE, over |-> FALSE]

\* sequencing: the rest of an operation runs unless an exception is unwinding
\* (or the run has left the bound on Order instances)
Bind(S, F(_)) == UNION {IF t.raised \/ t.over THEN {t} ELSE F(t) : t \in S}

\* the recorded status of the order the role map holds for the other
\* bracket leg, seen from instance i ("-" when there is none)
SiblingStatus(s, i) ==
    LET role == s.insts[i].role
        other == IF role = "EXIT_PROFIT" THEN s.orders["EXIT_LOSS"]
                 ELSE IF role = "EXIT_LOSS" THEN s.orders["EXIT_PROFIT"]
                 ELSE 0
    IN  IF other = 0 THEN "-" ELSE s.insts[other].status

\* the quantity recorded as filled on the first n instances that are entry
\* orders, less the quantity recorded as filled on those that are exit
\* orders
RECURSIVE NetFilled(_, _)
NetFilled(s, n) ==
    IF n = 0 THEN 0
    ELSE NetFilled(s, n - 1)
           + (IF s.insts[n].role = "ENTRY" THEN s.insts[n].filled_qty
              ELSE 0 - s.insts[n].filled_qty)

\* the position still open by the orders' records
PositionOpen(s) == NetFilled(s, Len(s.insts))

\* one broker call appended to the log of the running operation: which
\* call, on which instance, in which orchestrator state, with which result;
\* s is the snapshot the call was made in, so `was` is the status the
\* instance had when it was handed to the broker, `qty` its quantity and
\* `open` the position open at that moment
Log(s, op, i, res) ==
    [s EXCEPT !.calls = Append(@, [op |-> op, inst |-> i,
                                     role |-> s.insts[i].role,
                                     st |-> s.state, res |-> res,
                                     was |-> s.insts[i].status,
                                     qty |-> s.insts[i].qty,
                                     open |-> PositionOpen(s),
                                     sibling |-> SiblingStatus(s, i)])]

TerminalStatus == {"FILLED", "CANCELED", "REJECTED", "ERROR"}

\* every order needs the same number of polls
DemoBroker_required_polls_SameForAll(o) ==
    fills_after_polls

\* ------------------------------------------------------------ DemoBroker
DemoBroker_required_polls(o) ==
    IF o.role = "EXIT_PROFIT" THEN fills_after_polls + 1 ELSE fills_after_polls

DemoBroker_place_order(s, i) ==
    {[raised |-> FALSE, id |-> s.next_id,
      s |-> [s EXCEPT !.next_id = @ + 1,
                      !.poll_counts = Append(@, 0)]]}

DemoBroker_poll_order(s, i) ==
    LET o == s.insts[i]
        n == s.poll_counts[o.order_id] + 1
    IN  IF o.order_id = 0
        THEN {[raised |-> FALSE, status |-> "ERROR", filled_qty |-> 0, s |-> s]}
        ELSE {[raised |-> FALSE,
               status |-> IF n > DemoBroker_required_polls(o)
                          THEN "FILLED" ELSE "SENT",
               filled_qty |-> IF n > DemoBroker_required_polls(o)
                              THEN o.qty ELSE 0,
               s |-> [s EXCEPT !.poll_counts[o.order_id] = n]]}

DemoBroker_cancel_order(s, i) ==
    {[raised |-> FALSE, success |-> TRUE, s |-> s]}

\* ----------------------------------------------------- KabuStationBroker
\* The remote side is free: a request can fail (exception), and an answered
\* request can carry any status the adapter maps to; a PARTIAL answer
\* carries a filled quantity from FilledQtys (none, or one lot: part of a
\* two-lot order, all of a one-lot order), the other answers carry none (a
\* FILLED one then counts as the whole quantity).
KabuStatuses == {"SENT", "PARTIAL", "FILLED", "CANCELED", "REJECTED", "ERROR"}
FilledQtys == {0, 1}

\* _build_order_payload refuses an order without Side before any request
KabuStationBroker_place_order(s, i) ==
    {[raised |-> TRUE, id |-> 0, s |-> s]}
    \cup (IF s.insts[i].side = 0 THEN {}
          ELSE {[raised |-> FALSE, id |-> s.next_id,
                 s |-> [s EXCEPT !.next_id = @ + 1]]})

KabuStationBroker_poll_order(s, i) ==
    IF s.insts[i].order_id = 0
    THEN {[raised |-> FALSE, status |-> "ERROR", filled_qty |-> 0, s |-> s]}
    ELSE {[raised |-> TRUE, status |-> "ERROR", filled_qty |-> 0, s |-> s]}
         \cup {[raised |-> FALSE, status |-> st, filled_qty |-> 0, s |-> s] :
                 st \in KabuStatuses}
         \cup {[raised |-> FALSE, status |-> "PARTIAL", filled_qty |-> f,
                 s |-> s] : f \in FilledQtys}

KabuStationBroker_cancel_order(s, i) ==
    IF s.insts[i].order_id = 0
    THEN {[raised |-> FALSE, success |-> FALSE, s |-> s]}
    ELSE {[raised |-> TRUE, success |-> FALSE, s |-> s],
          [raised |-> FALSE, success |-> TRUE, s |-> s],
          [raised |-> FALSE, success |-> FALSE, s |-> s]}

\* ------------------------------------- BrokerInterface (dynamic dispatch)
place_order(s, i) ==
    IF broker = "demo" THEN DemoBroker_place_order(s, i)
    ELSE KabuStationBroker_place_order(s, i)

poll_order(s, i) ==
    IF broker = "demo" THEN DemoBroker_poll_order(s, i)
    ELSE KabuStationBroker_poll_order(s, i)

cancel_order(s, i) ==
    IF broker = "demo" THEN DemoBroker_cancel_order(s, i)
    ELSE KabuStationBroker_cancel_order(s, i)

\* ----------------------------------------------------------------- Order
\* Order(...) constructor: status NEW, no identifier, nothing filled
\* (of the brokerage fields, the ones the orchestrator computes with)
NewOrder(role, order_type, qty, side, price, stop_trigger_price) ==
    [role |-> role, order_type |-> order_type, qty |-> qty, side |-> side,
     price |-> price, stop_trigger_price |-> stop_trigger_price,
     order_id |-> 0, status |-> "NEW", filled_qty |-> 0]

\* Order.place
Order_place(s, i) ==
    {IF r.raised
     THEN [Log(r.s, "submit", i, "raise") EXCEPT !.raised = TRUE]
     ELSE [Log(r.s, "submit", i, "ok") EXCEPT !.insts[i].order_id = r.id,
                                              !.insts[i].status = "SENT"]
     : r \in place_order(s, i)}

\* Order.poll_status, what it keeps of a poll result on the order o
Order_keep(o, status, filled_qty) ==
    LET f1 == IF filled_qty # 0 THEN filled_qty ELSE o.filled_qty
        f2 == IF status = "FILLED" /\ f1 = 0 THEN o.qty ELSE f1
    IN  [o EXCEPT !.status = status, !.filled_qty = f2]

\* Order.poll_status; the returned status is the instance's new status
Order_poll_status(s, i) ==
    {IF r.raised
     THEN [Log(r.s, "poll", i, "raise") EXCEPT !.raised = TRUE]
     ELSE [Log(r.s, "poll", i, r.status)
             EXCEPT !.insts[i] = Order_keep(s.insts[i], r.status,
                                            r.filled_qty)]
     : r \in poll_order(s, i)}

\* a confirmed cancel is not recorded on the order
Order_cancel_KeepsStatus(s, i) ==
    {IF r.raised
     THEN [success |-> FALSE,
           s |-> [Log(r.s, "cancel", i, "raise") EXCEPT !.raised = TRUE]]
     ELSE IF r.success
     THEN [success |-> TRUE, s |-> Log(r.s, "cancel", i, "ok")]
     ELSE [success |-> FALSE, s |-> Log(r.s, "cancel", i, "fail")]
     : r \in cancel_order(s, i)}

\* Order.cancel: the set of <<success, snapshot>> it can return
Order_cancel(s, i) ==
    {IF r.raised
     THEN [success |-> FALSE,
           s |-> [Log(r.s, "cancel", i, "raise") EXCEPT !.raised = TRUE]]
     ELSE IF r.success
     THEN [success |-> TRUE,
           s |-> [Log(r.s, "cancel", i, "ok")
                    EXCEPT !.insts[i].status = "CANCELED"]]
     ELSE [success |-> FALSE, s |-> Log(r.s, "cancel", i, "fail")]
     : r \in cancel_order(s, i)}

\* ------------------------------------------------------------ AutoTrader
\* a new Order object; its identity is its index in insts
AddInst(s, o) == [s EXCEPT !.insts = Append(@, o)]

\* the bound on Order instances: a run that needs k more than MaxOrders is
\* cut where it would create them
NoRoom(s, k) == Len(s.insts) + k > MaxOrders
Cut(s) == [s EXCEPT !.over = TRUE]

\* self.orders[role] = order (a dict keeps the position of an existing key)
DictSet(s, role, i) ==
    [s EXCEPT !.orders[role] = i,
              !.order_keys = IF s.orders[role] # 0 THEN @ ELSE Append(@, role)]

\* list(self.orders.values())
OrderValues(s) == [k \in 1 .. Len(s.order_keys) |-> s.orders[s.order_keys[k]]]

\* time.monotonic(): the origin of this clock is arbitrary, so the first
\* reading the orchestrator keeps is called 1; a later reading is not earlier
\* than the readings kept (last_poll is the latest of them)
time_monotonic(s) ==
    IF s.last_poll = 0 THEN {1} ELSE {n \in MonoSamples : n >= s.last_poll}

RECURSIVE cancel_all_loop(_, _)
cancel_all_loop(s, todo) ==
    IF todo = <<>> THEN {s}
    ELSE LET i == Head(todo)
         IN  Bind(IF s.insts[i].status \notin {"FILLED", "CANCELED"}
                  THEN {r.s : r \in Order_cancel(s, i)}
                  ELSE {s},
                  LAMBDA t : cancel_all_loop(t, Tail(todo)))

cancel_all_orders(s) == cancel_all_loop(s, OrderValues(s))

_enter_error_state(s) == cancel_all_orders([s EXCEPT !.state = "ERROR"])

_resolve_exit_side(s) ==
    IF s.entry_order = 0 THEN 0
    ELSE LET side == s.insts[s.entry_order].side
         IN  IF side = 0 THEN 0
             ELSE IF side = 1 THEN 2
             ELSE IF side = 2 THEN 1
             ELSE 0

_resolve_stop_under_over(s) ==
    IF s.entry_order = 0 THEN 0
    ELSE LET side == s.insts[s.entry_order].side
         IN  IF side = 1 THEN ReverseLimitUnderOver.UNDER
             ELSE IF side = 2 THEN ReverseLimitUnderOver.OVER
             ELSE 0

\* of the keyword arguments only side is modelled; {} leaves side None
_build_exit_order_base(s, exit_side) ==
    IF s.entry_order = 0 THEN [side |-> 0] ELSE [side |-> exit_side]

\* the two legs are submitted in the other order
create_exit_orders_ProfitFirst(s) ==
    IF s.entry_order = 0 THEN {[s EXCEPT !.state = "ERROR"]}
    ELSE IF s.profit_price = 0 \/ s.loss_price = 0
    THEN {[s EXCEPT !.state = "ERROR"]}
    ELSE LET exit_side == _resolve_exit_side(s)
             base_kwargs == _build_exit_order_base(s, exit_side)
             stop_under_over == _resolve_stop_under_over(s)
             qty == s.insts[s.entry_order].qty
             profit == NewOrder("EXIT_PROFIT", "LIMIT", qty, base_kwargs.side,
                                s.profit_price, 0)
             loss == NewOrder("EXIT_LOSS", "STOP", qty, base_kwargs.side,
                              0, s.loss_price)
             p == Len(s.insts) + 1
             l == Len(s.insts) + 2
             s1 == AddInst(AddInst(s, profit), loss)
             s2 == DictSet(DictSet(s1, "EXIT_PROFIT", p), "EXIT_LOSS", l)
         IN  IF exit_side = 0 /\ broker # "demo"
             THEN {[s EXCEPT !.state = "ERROR"]}
             ELSE IF stop_under_over = 0 /\ broker # "demo"
             THEN {[s EXCEPT !.state = "ERROR"]}
             ELSE IF NoRoom(s, 2) THEN {Cut(s)}
             ELSE Bind(Bind(Order_place(s2, p),
                            LAMBDA t : Order_place(t, l)),
                       LAMBDA u : {[u EXCEPT !.state = "EXIT_WAIT"]})

create_exit_orders(s) ==
    IF s.entry_order = 0 THEN {[s EXCEPT !.state = "ERROR"]}
    ELSE IF s.profit_price = 0 \/ s.loss_price = 0
    THEN {[s EXCEPT !.state = "ERROR"]}
    ELSE LET exit_side == _resolve_exit_side(s)
             base_kwargs == _build_exit_order_base(s, exit_side)
             stop_under_over == _resolve_stop_under_over(s)
             qty == s.insts[s.entry_order].qty
             profit == NewOrder("EXIT_PROFIT", "LIMIT", qty, base_kwargs.side,
                                s.profit_price, 0)
             loss == NewOrder("EXIT_LOSS", "STOP", qty, base_kwargs.side,
                              0, s.loss_price)
             p == Len(s.insts) + 1
             l == Len(s.insts) + 2
             s1 == AddInst(AddInst(s, profit), loss)
             s2 == DictSet(DictSet(s1, "EXIT_PROFIT", p), "EXIT_LOSS", l)
         IN  IF exit_side = 0 /\ broker # "demo"
             THEN {[s EXCEPT !.state = "ERROR"]}
             ELSE IF stop_under_over = 0 /\ broker # "demo"
             THEN {[s EXCEPT !.state = "ERROR"]}
             ELSE IF NoRoom(s, 2) THEN {Cut(s)}
             ELSE Bind(Bind(Order_place(s2, l),
                            LAMBDA t : Order_place(t, p)),
                       LAMBDA u : {[u EXCEPT !.state = "EXIT_WAIT"]})

\* the call in IDLE or ENTRY_WAIT also cancels what is working
force_exit_market_CancelsAll(s) ==
    IF s.state \in {"IDLE", "ENTRY_WAIT"} THEN _enter_error_state(s)
    ELSE IF s.state \in {"EXIT_FILLED", "ERROR"} THEN {s}
    ELSE LET exit_side == _resolve_exit_side(s)
             base_kwargs == _build_exit_order_base(s, exit_side)
             exit_order ==
                 NewOrder("EXIT_MARKET", "MARKET",
                          IF s.entry_order # 0
                          THEN s.insts[s.entry_order].qty ELSE 0,
                          base_kwargs.side, 0, 0)
             i == Len(s.insts) + 1
             s1 == DictSet(AddInst(s, exit_order), "EXIT_MARKET", i)
         IN  IF exit_side = 0 /\ broker # "demo"
             THEN {[s EXCEPT !.state = "ERROR"]}
             ELSE IF NoRoom(s, 1) THEN {Cut(s)}
             ELSE Bind(Order_place(s1, i),
                       LAMBDA t : {[t EXCEPT !.state = "FORCE_EXITING",
                                             !.started_at = now,
                                             !.last_poll = now]
                                   : now \in time_monotonic(t)})

\* the last forced-exit poll time is not recorded
force_exit_market_KeepsLastPoll(s) ==
    IF s.state \in {"IDLE", "ENTRY_WAIT"} THEN {[s EXCEPT !.state = "ERROR"]}
    ELSE IF s.state \in {"EXIT_FILLED", "ERROR"} THEN {s}
    ELSE LET exit_side == _resolve_exit_side(s)
             base_kwargs == _build_exit_order_base(s, exit_side)
             exit_order ==
                 NewOrder("EXIT_MARKET", "MARKET",
                          IF s.entry_order # 0
                          THEN s.insts[s.entry_order].qty ELSE 0,
                          base_kwargs.side, 0, 0)
             i == Len(s.insts) + 1
             s1 == DictSet(AddInst(s, exit_order), "EXIT_MARKET", i)
         IN  IF exit_side = 0 /\ broker # "demo"
             THEN {[s EXCEPT !.state = "ERROR"]}
             ELSE IF NoRoom(s, 1) THEN {Cut(s)}
             ELSE Bind(Order_place(s1, i),
                       LAMBDA t : {[t EXCEPT !.state = "FORCE_EXITING",
                                             !.started_at = now]
                                   : now \in time_monotonic(t)})

\* a finished or failed trade is not told apart: the forced exit is started
\* from EXIT_FILLED and from ERROR as from any later state
force_exit_market_NoTerminalGuard(s) ==
    IF s.state \in {"IDLE", "ENTRY_WAIT"} THEN {[s EXCEPT !.state = "ERROR"]}
    ELSE LET exit_side == _resolve_exit_side(s)
             base_kwargs == _build_exit_order_base(s, exit_side)
             exit_order ==
                 NewOrder("EXIT_MARKET", "MARKET",
                          IF s.entry_order # 0
                          THEN s.insts[s.entry_order].qty ELSE 0,
                          base_kwargs.side, 0, 0)
             i == Len(s.insts) + 1
             s1 == DictSet(AddInst(s, exit_order), "EXIT_MARKET", i)
         IN  IF exit_side = 0 /\ broker # "demo"
             THEN {[s EXCEPT !.state = "ERROR"]}
             ELSE IF NoRoom(s, 1) THEN {Cut(s)}
             ELSE Bind(Order_place(s1, i),
                       LAMBDA t : {[t EXCEPT !.state = "FORCE_EXITING",
                                             !.started_at = now,
                                             !.last_poll = now]
                                   : now \in time_monotonic(t)})

\* a forced exit is submitted also before a position exists
force_exit_market_NoPositionGuard(s) ==
    IF s.state \in {"EXIT_FILLED", "ERROR"} THEN {s}
    ELSE LET exit_side == _resolve_exit_side(s)
             base_kwargs == _build_exit_order_base(s, exit_side)
             exit_order ==
                 NewOrder("EXIT_MARKET", "MARKET",
                          IF s.entry_order # 0
                          THEN s.insts[s.entry_order].qty ELSE 0,
                          base_kwargs.side, 0, 0)
             i == Len(s.insts) + 1
             s1 == DictSet(AddInst(s, exit_order), "EXIT_MARKET", i)
         IN  IF exit_side = 0 /\ broker # "demo"
             THEN {[s EXCEPT !.state = "ERROR"]}
             ELSE IF NoRoom(s, 1) THEN {Cut(s)}
             ELSE Bind(Order_place(s1, i),
                       LAMBDA t : {[t EXCEPT !.state = "FORCE_EXITING",
                                             !.started_at = now,
                                             !.last_poll = now]
                                   : now \in time_monotonic(t)})

force_exit_market(s) ==
    IF s.state \in {"IDLE", "ENTRY_WAIT"} THEN {[s EXCEPT !.state = "ERROR"]}
    ELSE IF s.state \in {"EXIT_FILLED", "ERROR"} THEN {s}
    ELSE LET exit_side == _resolve_exit_side(s)
             base_kwargs == _build_exit_order_base(s, exit_side)
             exit_order ==
                 NewOrder("EXIT_MARKET", "MARKET",
                          IF s.entry_order # 0
                          THEN s.insts[s.entry_order].qty ELSE 0,
                          base_kwargs.side, 0, 0)
             i == Len(s.insts) + 1
             s1 == DictSet(AddInst(s, exit_order), "EXIT_MARKET", i)
         IN  IF exit_side = 0 /\ broker # "demo"
             THEN {[s EXCEPT !.state = "ERROR"]}
             ELSE IF NoRoom(s, 1) THEN {Cut(s)}
             ELSE Bind(Order_place(s1, i),
                       LAMBDA t : {[t EXCEPT !.state = "FORCE_EXITING",
                                             !.started_at = now,
                                             !.last_poll = now]
                                   : now \in time_monotonic(t)})

RECURSIVE cancel_other_loop(_, _, _)
cancel_other_loop(s, filled_order, roles) ==
    IF roles = <<>> THEN {s}
    ELSE LET i == s.orders[Head(roles)]
         IN  Bind(IF i # 0 /\ i # filled_order
                  THEN UNION {IF r.s.raised \/ r.success THEN {r.s}
                              ELSE Bind(force_exit_market(r.s),
                                        LAMBDA t :
                                          IF t.state # "FORCE_EXITING"
                                          THEN _enter_error_state(t)
                                          ELSE {t})
                              : r \in Order_cancel(s, i)}
                  ELSE {s},
                  LAMBDA u : cancel_other_loop(u, filled_order, Tail(roles)))

cancel_other_exit_orders(s, filled_order) ==
    cancel_other_loop(s, filled_order, <<"EXIT_PROFIT", "EXIT_LOSS">>)

\* whatever the confirming poll reports, the identifier is remembered
_confirm_order_filled_MemoizesAny(s, i) ==
    LET o == s.insts[i]
    IN  IF ~s.reconcile_on_success THEN {[ok |-> TRUE, s |-> s]}
        ELSE IF o.order_id = 0 \/ o.order_id \in s.confirmed_order_ids
        THEN {[ok |-> TRUE, s |-> s]}
        ELSE {IF ~t.raised /\ t.insts[i].status = "FILLED"
              THEN [ok |-> TRUE,
                    s |-> [t EXCEPT !.confirmed_order_ids =
                                      @ \cup {o.order_id}]]
              ELSE [ok |-> FALSE,
                    s |-> [t EXCEPT !.confirmed_order_ids =
                                      @ \cup {o.order_id}]]
              : t \in Order_poll_status(s, i)}

\* AutoTrader._confirm_order_filled: the set of <<ok, snapshot>> it can
\* return; no operation of the orchestrator calls it
_confirm_order_filled(s, i) ==
    LET o == s.insts[i]
    IN  IF ~s.reconcile_on_success THEN {[ok |-> TRUE, s |-> s]}
        ELSE IF o.order_id = 0 \/ o.order_id \in s.confirmed_order_ids
        THEN {[ok |-> TRUE, s |-> s]}
        ELSE {IF ~t.raised /\ t.insts[i].status = "FILLED"
              THEN [ok |-> TRUE,
                    s |-> [t EXCEPT !.confirmed_order_ids =
                                      @ \cup {o.order_id}]]
              ELSE [ok |-> FALSE, s |-> t]
              : t \in Order_poll_status(s, i)}

\* a FILLED report is acted on only after _confirm_order_filled agrees
on_order_event_Confirms(s, i, status) ==
    LET act(u) ==
          LET role == u.insts[i].role
              other_role == IF role = "EXIT_PROFIT" THEN "EXIT_LOSS"
                            ELSE "EXIT_PROFIT"
              other_order == u.orders[other_role]
          IN  IF u.state = "ERROR" THEN {u}
              ELSE IF status \in {"REJECTED", "ERROR"}
              THEN _enter_error_state(u)
              ELSE IF role = "ENTRY" /\ status = "FILLED"
              THEN create_exit_orders([u EXCEPT !.state = "ENTRY_FILLED"])
              ELSE IF role \in {"EXIT_PROFIT", "EXIT_LOSS"}
                      /\ status = "FILLED"
              THEN IF other_order # 0
                      /\ u.insts[other_order].status = "FILLED"
                   THEN _enter_error_state(u)
                   ELSE Bind(cancel_other_exit_orders(u, i),
                             LAMBDA t : {IF t.state # "ERROR"
                                         THEN [t EXCEPT !.state = "EXIT_FILLED"]
                                         ELSE t})
              ELSE IF role = "EXIT_MARKET" /\ status = "FILLED"
              THEN {[u EXCEPT !.state = "EXIT_FILLED"]}
              ELSE {u}
    IN  IF status = "FILLED"
        THEN UNION {IF r.s.raised \/ ~r.ok THEN {r.s} ELSE act(r.s)
                    : r \in _confirm_order_filled(s, i)}
        ELSE act(s)

\* a filled leg is not compared with its sibling
on_order_event_NoBothFilledCheck(s, i, status) ==
    LET role == s.insts[i].role
    IN  IF s.state = "ERROR" THEN {s}
        ELSE IF status \in {"REJECTED", "ERROR"} THEN _enter_error_state(s)
        ELSE IF role = "ENTRY" /\ status = "FILLED"
        THEN create_exit_orders([s EXCEPT !.state = "ENTRY_FILLED"])
        ELSE IF role \in {"EXIT_PROFIT", "EXIT_LOSS"} /\ status = "FILLED"
        THEN Bind(cancel_other_exit_orders(s, i),
                  LAMBDA t : {IF t.state # "ERROR"
                              THEN [t EXCEPT !.state = "EXIT_FILLED"]
                              ELSE t})
        ELSE IF role = "EXIT_MARKET" /\ status = "FILLED"
        THEN {[s EXCEPT !.state = "EXIT_FILLED"]}
        ELSE {s}

\* an event is handled in ERROR as in any other state
on_order_event_NoErrorGuard(s, i, status) ==
    LET role == s.insts[i].role
        other_role == IF role = "EXIT_PROFIT" THEN "EXIT_LOSS"
                      ELSE "EXIT_PROFIT"
        other_order == s.orders[other_role]
    IN  IF status \in {"REJECTED", "ERROR"} THEN _enter_error_state(s)
        ELSE IF role = "ENTRY" /\ status = "FILLED"
        THEN create_exit_orders([s EXCEPT !.state = "ENTRY_FILLED"])
        ELSE IF role \in {"EXIT_PROFIT", "EXIT_LOSS"} /\ status = "FILLED"
        THEN IF other_order # 0 /\ s.insts[other_order].status = "FILLED"
             THEN _enter_error_state(s)
             ELSE Bind(cancel_other_exit_orders(s, i),
                       LAMBDA t : {IF t.state # "ERROR"
                                   THEN [t EXCEPT !.state = "EXIT_FILLED"]
                                   ELSE t})
        ELSE IF role = "EXIT_MARKET" /\ status = "FILLED"
        THEN {[s EXCEPT !.state = "EXIT_FILLED"]}
        ELSE {s}

on_order_event(s, i, status) ==
    LET role == s.insts[i].role
        other_role == IF role = "EXIT_PROFIT" THEN "EXIT_LOSS"
                      ELSE "EXIT_PROFIT"
        other_order == s.orders[other_role]
    IN  IF s.state = "ERROR" THEN {s}
        ELSE IF status \in {"REJECTED", "ERROR"} THEN _enter_error_state(s)
        ELSE IF role = "ENTRY" /\ status = "FILLED"
        THEN create_exit_orders([s EXCEPT !.state = "ENTRY_FILLED"])
        ELSE IF role \in {"EXIT_PROFIT", "EXIT_LOSS"} /\ status = "FILLED"
        THEN IF other_order # 0 /\ s.insts[other_order].status = "FILLED"
             THEN _enter_error_state(s)
             ELSE Bind(cancel_other_exit_orders(s, i),
                       LAMBDA t : {IF t.state # "ERROR"
                                   THEN [t EXCEPT !.state = "EXIT_FILLED"]
                                   ELSE t})
        ELSE IF role = "EXIT_MARKET" /\ status = "FILLED"
        THEN {[s EXCEPT !.state = "EXIT_FILLED"]}
        ELSE {s}

\* the replacement asks for the whole quantity again
_handle_partial_fill_FullQty(s, i) ==
    LET order == s.insts[i]
        remaining_qty == order.qty - order.filled_qty
        n == Len(s.insts) + 1
        top_up == NewOrder("EXIT_MARKET", "MARKET", remaining_qty, order.side,
                           order.price, order.stop_trigger_price)
        replacement == NewOrder(order.role, order.order_type, order.qty,
                                order.side, order.price,
                                order.stop_trigger_price)
    IN  IF order.filled_qty <= 0 \/ order.filled_qty >= order.qty
        THEN {[handled |-> FALSE, s |-> s]}
        ELSE IF remaining_qty <= 0 THEN {[handled |-> FALSE, s |-> s]}
        ELSE IF s.state = "FORCE_EXITING"
        THEN IF NoRoom(s, 1) THEN {[handled |-> TRUE, s |-> Cut(s)]}
             ELSE {[handled |-> TRUE, s |-> t] :
                     t \in Order_place(DictSet(AddInst(s, top_up),
                                               "EXIT_MARKET", n), n)}
        ELSE UNION {IF r.s.raised THEN {[handled |-> FALSE, s |-> r.s]}
                    ELSE IF ~r.success
                    THEN {[handled |-> TRUE, s |-> t] :
                            t \in _enter_error_state(r.s)}
                    ELSE IF NoRoom(s, 1)
                    THEN {[handled |-> TRUE, s |-> Cut(r.s)]}
                    ELSE {[handled |-> TRUE, s |-> t] :
                            t \in Order_place(
                                    DictSet(AddInst(r.s, replacement),
                                            order.role, n), n)}
                    : r \in Order_cancel(s, i)}

\* after a confirmed cancel the cancelled order itself is submitted again
_handle_partial_fill_Resubmits(s, i) ==
    LET order == s.insts[i]
        remaining_qty == order.qty - order.filled_qty
        n == Len(s.insts) + 1
        top_up == NewOrder("EXIT_MARKET", "MARKET", remaining_qty, order.side,
                           order.price, order.stop_trigger_price)
    IN  IF order.filled_qty <= 0 \/ order.filled_qty >= order.qty
        THEN {[handled |-> FALSE, s |-> s]}
        ELSE IF remaining_qty <= 0 THEN {[handled |-> FALSE, s |-> s]}
        ELSE IF s.state = "FORCE_EXITING"
        THEN IF NoRoom(s, 1) THEN {[handled |-> TRUE, s |-> Cut(s)]}
             ELSE {[handled |-> TRUE, s |-> t] :
                     t \in Order_place(DictSet(AddInst(s, top_up),
                                               "EXIT_MARKET", n), n)}
        ELSE UNION {IF r.s.raised THEN {[handled |-> FALSE, s |-> r.s]}
                    ELSE IF ~r.success
                    THEN {[handled |-> TRUE, s |-> t] :
                            t \in _enter_error_state(r.s)}
                    ELSE {[handled |-> TRUE, s |-> t] :
                            t \in Order_place(r.s, i)}
                    : r \in Order_cancel(s, i)}

\* a refused cancel is not looked at: the replacement is submitted anyway
_handle_partial_fill_IgnoresRefusal(s, i) ==
    LET order == s.insts[i]
        remaining_qty == order.qty - order.filled_qty
        n == Len(s.insts) + 1
        top_up == NewOrder("EXIT_MARKET", "MARKET", remaining_qty, order.side,
                           order.price, order.stop_trigger_price)
        replacement == NewOrder(order.role, order.order_type, remaining_qty,
                                order.side, order.price,
                                order.stop_trigger_price)
    IN  IF order.filled_qty <= 0 \/ order.filled_qty >= order.qty
        THEN {[handled |-> FALSE, s |-> s]}
        ELSE IF remaining_qty <= 0 THEN {[handled |-> FALSE, s |-> s]}
        ELSE IF s.state = "FORCE_EXITING"
        THEN IF NoRoom(s, 1) THEN {[handled |-> TRUE, s |-> Cut(s)]}
             ELSE {[handled |-> TRUE, s |-> t] :
                     t \in Order_place(DictSet(AddInst(s, top_up),
                                               "EXIT_MARKET", n), n)}
        ELSE UNION {IF r.s.raised THEN {[handled |-> FALSE, s |-> r.s]}
                    ELSE IF NoRoom(s, 1)
                    THEN {[handled |-> TRUE, s |-> Cut(r.s)]}
                    ELSE {[handled |-> TRUE, s |-> t] :
                            t \in Order_place(
                                    DictSet(AddInst(r.s, replacement),
                                            order.role, n), n)}
                    : r \in Order_cancel(s, i)}

\* FORCE_EXITING is not told apart: the partly filled order is cancelled and
\* replaced under its own role
_handle_partial_fill_NoTopUp(s, i) ==
    LET order == s.insts[i]
        remaining_qty == order.qty - order.filled_qty
        n == Len(s.insts) + 1
        replacement == NewOrder(order.role, order.order_type, remaining_qty,
                                order.side, order.price,
                                order.stop_trigger_price)
    IN  IF order.filled_qty <= 0 \/ order.filled_qty >= order.qty
        THEN {[handled |-> FALSE, s |-> s]}
        ELSE IF remaining_qty <= 0 THEN {[handled |-> FALSE, s |-> s]}
        ELSE UNION {IF r.s.raised THEN {[handled |-> FALSE, s |-> r.s]}
                    ELSE IF ~r.success
                    THEN {[handled |-> TRUE, s |-> t] :
                            t \in _enter_error_state(r.s)}
                    ELSE IF NoRoom(s, 1)
                    THEN {[handled |-> TRUE, s |-> Cut(r.s)]}
                    ELSE {[handled |-> TRUE, s |-> t] :
                            t \in Order_place(
                                    DictSet(AddInst(r.s, replacement),
                                            order.role, n), n)}
                    : r \in Order_cancel(s, i)}

\* the set of <<handled, snapshot>> _handle_partial_fill can return
_handle_partial_fill(s, i) ==
    LET order == s.insts[i]
        remaining_qty == order.qty - order.filled_qty
        n == Len(s.insts) + 1
        top_up == NewOrder("EXIT_MARKET", "MARKET", remaining_qty, order.side,
                           order.price, order.stop_trigger_price)
        replacement == NewOrder(order.role, order.order_type, remaining_qty,
                                order.side, order.price,
                                order.stop_trigger_price)
    IN  IF order.filled_qty <= 0 \/ order.filled_qty >= order.qty
        THEN {[handled |-> FALSE, s |-> s]}
        ELSE IF remaining_qty <= 0 THEN {[handled |-> FALSE, s |-> s]}
        ELSE IF s.state = "FORCE_EXITING"
        THEN IF NoRoom(s, 1) THEN {[handled |-> TRUE, s |-> Cut(s)]}
             ELSE {[handled |-> TRUE, s |-> t] :
                     t \in Order_place(DictSet(AddInst(s, top_up),
                                               "EXIT_MARKET", n), n)}
        ELSE UNION {IF r.s.raised THEN {[handled |-> FALSE, s |-> r.s]}
                    ELSE IF ~r.success
                    THEN {[handled |-> TRUE, s |-> t] :
                            t \in _enter_error_state(r.s)}
                    ELSE IF NoRoom(s, 1)
                    THEN {[handled |-> TRUE, s |-> Cut(r.s)]}
                    ELSE {[handled |-> TRUE, s |-> t] :
                            t \in Order_place(
                                    DictSet(AddInst(r.s, replacement),
                                            order.role, n), n)}
                    : r \in Order_cancel(s, i)}

RECURSIVE poll_loop(_, _)
poll_loop(s, todo) ==
    IF todo = <<>> THEN {s}
    ELSE LET i == Head(todo)
             rest == Tail(todo)
         IN  IF s.insts[i].status \in TerminalStatus THEN poll_loop(s, rest)
             ELSE Bind(Order_poll_status(s, i),
                    LAMBDA t :
                      LET status == t.insts[i].status
                      IN  IF status \in {"REJECTED", "ERROR"}
                          THEN _enter_error_state(t)
                          ELSE IF status = "PARTIAL"
                          THEN UNION {
                                 IF r.s.raised \/ r.s.over THEN {r.s}
                                 ELSE IF r.handled THEN poll_loop(r.s, rest)
                                 ELSE Bind(on_order_event(r.s, i, status),
                                           LAMBDA u : poll_loop(u, rest))
                                 : r \in _handle_partial_fill(t, i)}
                          ELSE Bind(on_order_event(t, i, status),
                                    LAMBDA v : poll_loop(v, rest)))

\* the poll interval is tested before the watchdog
_poll_active_orders_ThrottleFirst(s) ==
    IF s.state = "FORCE_EXITING"
    THEN UNION {
           IF s.last_poll # 0
              /\ now - s.last_poll < force_exit_poll_interval_sec
           THEN {[s EXCEPT !.mono = now, !.since = s.last_poll]}
           ELSE IF s.started_at # 0
                   /\ now - s.started_at > force_exit_max_duration_sec
           THEN {[s EXCEPT !.state = "ERROR",
                           !.mono = now, !.since = s.last_poll]}
           ELSE poll_loop([s EXCEPT !.last_poll = now,
                                    !.mono = now, !.since = s.last_poll],
                          OrderValues(s))
           : now \in time_monotonic(s)}
    ELSE poll_loop(s, OrderValues(s))

\* the poll interval is not tested
_poll_active_orders_NoThrottle(s) ==
    IF s.state = "FORCE_EXITING"
    THEN UNION {
           IF s.started_at # 0
              /\ now - s.started_at > force_exit_max_duration_sec
           THEN {[s EXCEPT !.state = "ERROR",
                           !.mono = now, !.since = s.last_poll]}
           ELSE poll_loop([s EXCEPT !.last_poll = now,
                                    !.mono = now, !.since = s.last_poll],
                          OrderValues(s))
           : now \in time_monotonic(s)}
    ELSE poll_loop(s, OrderValues(s))

\* outside FORCE_EXITING the reading `now` is never looked at
_poll_active_orders(s) ==
    IF s.state = "FORCE_EXITING"
    THEN UNION {
           IF s.started_at # 0
              /\ now - s.started_at > force_exit_max_duration_sec
           THEN {[s EXCEPT !.state = "ERROR",
                           !.mono = now, !.since = s.last_poll]}
           ELSE IF s.last_poll # 0
                   /\ now - s.last_poll < force_exit_poll_interval_sec
           THEN {[s EXCEPT !.mono = now, !.since = s.last_poll]}
           ELSE poll_loop([s EXCEPT !.last_poll = now,
                                    !.mono = now, !.since = s.last_poll],
                          OrderValues(s))
           : now \in time_monotonic(s)}
    ELSE poll_loop(s, OrderValues(s))

\* the three instants of the trading day, in minutes of the day
close_time == market_close_hour * 60 + market_close_minute
start_time == close_time - force_exit_start_before_close_min
deadline_time == close_time - force_exit_deadline_before_close_min

\* the deadline test is strict: the forced exit is skipped at the deadline
_maybe_force_exit_by_market_close_StrictDeadline(s, now) ==
    IF ~force_exit_use_market_close THEN {s}
    ELSE IF s.state \in {"EXIT_FILLED", "ERROR"} THEN {s}
    ELSE IF now < start_time THEN {s}
    ELSE IF s.state # "FORCE_EXITING"
    THEN IF now < deadline_time THEN force_exit_market(s)
         ELSE _enter_error_state(s)
    ELSE {s}

\* the deadline is not tested: the forced exit still starts after it
_maybe_force_exit_by_market_close_NoDeadline(s, now) ==
    IF ~force_exit_use_market_close THEN {s}
    ELSE IF s.state \in {"EXIT_FILLED", "ERROR"} THEN {s}
    ELSE IF now < start_time THEN {s}
    ELSE IF s.state # "FORCE_EXITING" THEN force_exit_market(s)
    ELSE {s}

\* the start of the window is not tested: the forced exit starts at any
\* time up to the deadline
_maybe_force_exit_by_market_close_NoStartTime(s, now) ==
    IF ~force_exit_use_market_close THEN {s}
    ELSE IF s.state \in {"EXIT_FILLED", "ERROR"} THEN {s}
    ELSE IF s.state # "FORCE_EXITING"
    THEN IF now <= deadline_time THEN force_exit_market(s)
         ELSE _enter_error_state(s)
    ELSE {s}

\* now: datetime.now() as the minute of the day
_maybe_force_exit_by_market_close(s, now) ==
    IF ~force_exit_use_market_close THEN {s}
    ELSE IF s.state \in {"EXIT_FILLED", "ERROR"} THEN {s}
    ELSE IF now < start_time THEN {s}
    ELSE IF s.state # "FORCE_EXITING"
    THEN IF now <= deadline_time THEN force_exit_market(s)
         ELSE _enter_error_state(s)
    ELSE {s}

\* the state is not tested before the orders are polled
poll_NoStateGuard(s, now) ==
    Bind(_maybe_force_exit_by_market_close(s, now),
         LAMBDA t : _poll_active_orders(t))

poll(s, now) ==
    Bind(_maybe_force_exit_by_market_close(s, now),
         LAMBDA t : IF t.state \in {"ENTRY_WAIT", "EXIT_WAIT", "FORCE_EXITING"}
                    THEN _poll_active_orders(t)
                    ELSE {t})

\* the state is left where it was after the entry is submitted
start_trade_KeepsState(s, entry_order_, profit_price_, loss_price_) ==
    IF s.state # "IDLE" THEN {[s EXCEPT !.state = "ERROR"]}
    ELSE LET i == Len(s.insts) + 1
             s1 == [AddInst(s, entry_order_)
                       EXCEPT !.profit_price = profit_price_,
                              !.loss_price = loss_price_,
                              !.entry_order = i]
             s2 == DictSet(s1, entry_order_.role, i)
         IN  IF NoRoom(s, 1) THEN {Cut(s)}
             ELSE Order_place(s2, i)

\* the state is not tested before the entry is submitted
start_trade_NoGuard(s, entry_order_, profit_price_, loss_price_) ==
    LET i == Len(s.insts) + 1
        s1 == [AddInst(s, entry_order_)
                  EXCEPT !.profit_price = profit_price_,
                         !.loss_price = loss_price_,
                         !.entry_order = i]
        s2 == DictSet(s1, entry_order_.role, i)
    IN  IF NoRoom(s, 1) THEN {Cut(s)}
        ELSE Bind(Order_place(s2, i),
                  LAMBDA t : {[t EXCEPT !.state = "ENTRY_WAIT"]})

\* a failing submit is answered with the error state
start_trade_ErrorOnFailure(s, entry_order_, profit_price_, loss_price_) ==
    IF s.state # "IDLE" THEN {[s EXCEPT !.state = "ERROR"]}
    ELSE LET i == Len(s.insts) + 1
             s1 == [AddInst(s, entry_order_)
                       EXCEPT !.profit_price = profit_price_,
                              !.loss_price = loss_price_,
                              !.entry_order = i]
             s2 == DictSet(s1, entry_order_.role, i)
         IN  IF NoRoom(s, 1) THEN {Cut(s)}
             ELSE {IF t.raised THEN [t EXCEPT !.state = "ERROR"]
                   ELSE [t EXCEPT !.state = "ENTRY_WAIT"]
                   : t \in Order_place(s2, i)}

start_trade(s, entry_order_, profit_price_, loss_price_) ==
    IF s.state # "IDLE" THEN {[s EXCEPT !.state = "ERROR"]}
    ELSE LET i == Len(s.insts) + 1
             s1 == [AddInst(s, entry_order_)
                       EXCEPT !.profit_price = profit_price_,
                              !.loss_price = loss_price_,
                              !.entry_order = i]
             s2 == DictSet(s1, entry_order_.role, i)
         IN  IF NoRoom(s, 1) THEN {Cut(s)}
             ELSE Bind(Order_place(s2, i),
                       LAMBDA t : {[t EXCEPT !.state = "ENTRY_WAIT"]})

\* ---------------------------------------------------------- the machine
\* the caller's entry order (run_demo, DemoWorker, LiveWorker)
EntryOrders ==
    {NewOrder("ENTRY", k.order_type, q, sd, k.price, 0) :
       k \in EntryKinds, q \in EntryQtys, sd \in Sides}

Init ==
    /\ state = "IDLE"
    /\ insts = <<>>
    /\ orders = [r \in OrderRole |-> 0]
    /\ order_keys = <<>>
    /\ entry_order = 0
    /\ profit_price = 0
    /\ loss_price = 0
    /\ force_exit_started_at = 0
    /\ last_force_exit_poll = 0
    /\ next_id = 1
    /\ poll_counts = <<>>
    /\ broker \in Brokers
    /\ fills_after_polls \in
         IF broker = "demo" THEN FillsAfterPolls ELSE {0}
    /\ force_exit_use_market_close \in BOOLEAN
    /\ raised = FALSE
    /\ _confirmed_order_ids = {}
    /\ input = <<>>
    /\ output = <<>>

\* the operation ends in snapshot t
Apply(t) ==
    /\ ~t.over
    /\ state' = t.state
    /\ insts' = t.insts
    /\ orders' = t.orders
    /\ order_keys' = t.order_keys
    /\ entry_order' = t.entry_order
    /\ profit_price' = t.profit_price
    /\ loss_price' = t.loss_price
    /\ force_exit_started_at' = t.started_at
    /\ last_force_exit_poll' = t.last_poll
    /\ next_id' = t.next_id
    /\ poll_counts' = t.poll_counts
    /\ raised' = t.raised
    /\ _confirmed_order_ids' = t.confirmed_order_ids
    /\ UNCHANGED <<broker, fills_after_polls, force_exit_use_market_close,
                   input, output>>

\* The callers in this repository (run_demo, DemoWorker.run, LiveWorker.run)
\* stop driving the orchestrator when one of its operations raises.
Driving == ~raised

StartTrade ==
    /\ Driving
    /\ \E e \in EntryOrders, pp \in ProfitPrices, lp \in LossPrices :
         \E t \in start_trade(Cur, e, pp, lp) : Apply(t)

\* the market-close rule compares datetime.now() only in these states
ClockDecides ==
    /\ force_exit_use_market_close
    /\ state \notin {"EXIT_FILLED", "ERROR", "FORCE_EXITING"}

\* datetime.now() at a tick (one reading stands for all where it is unused)
WallNow == IF ClockDecides THEN WallSamples ELSE {start_time - 1}

Poll ==
    /\ Driving
    /\ \E now \in WallNow : \E t \in poll(Cur, now) : Apply(t)

ForceExitMarket ==
    /\ Driving
    /\ \E t \in force_exit_market(Cur) : Apply(t)

Next == StartTrade \/ Poll \/ ForceExitMarket

Spec == Init /\ [][Next]_vars

\* ------------------------------------------------- an Order on its own
\* Order.poll_status under every poll result a broker can hand back
\* (OrderPollResult: a status and a filled quantity, 0 when it gives none),
\* on one submitted order that no orchestrator drives
OrderQtys == {1, 2, 3, 4}
PollResults ==
    [status : OrderStatus \ {"NEW"}, filled_qty : {0, 1, 2, 3, 4, 5}]

InitOrder ==
    /\ state = "IDLE"
    /\ \E q \in OrderQtys, k \in EntryKinds :
         insts = <<[NewOrder("ENTRY", k.order_type, q, 1, k.price, 0)
                      EXCEPT !.order_id = 1, !.status = "SENT"]>>
    /\ orders = [r \in OrderRole |-> 0]
    /\ order_keys = <<>>
    /\ entry_order = 0
    /\ profit_price = 0
    /\ loss_price = 0
    /\ force_exit_started_at = 0
    /\ last_force_exit_poll = 0
    /\ next_id = 2
    /\ poll_counts = <<>>
    /\ broker = "kabu"
    /\ fills_after_polls = 0
    /\ force_exit_use_market_close = FALSE
    /\ raised = FALSE
    /\ _confirmed_order_ids = {}
    /\ input = <<>>
    /\ output = <<>>

PollStatus ==
    /\ \E r \in PollResults :
         insts' = [insts EXCEPT ![1] = Order_keep(@, r.status, r.filled_qty)]
    /\ UNCHANGED <<state, orders, order_keys, entry_order, profit_price,
                   loss_price, force_exit_started_at, last_force_exit_poll,
                   next_id, poll_counts, broker, fills_after_polls,
                   force_exit_use_market_close, raised,
                   _confirmed_order_ids, input, output>>

NextOrder == PollStatus

SpecOrder == InitOrder /\ [][NextOrder]_vars

\* -------------------------------------- KabuStationBroker._map_order_status
\* A value of the broker's JSON payload: None (also: the key is missing), a
\* whole number, or a text, kept as the sequence of its characters (a
\* character outside ASCII is written as its code point, "U+7D04").
None == [kind |-> "none", n |-> 0, chars |-> <<>>]
Num(n) == [kind |-> "int", n |-> n, chars |-> <<>>]
Text(chars) == [kind |-> "str", n |-> 0, chars |-> chars]

\* bool(v)
Truthy(v) == \/ v.kind = "int" /\ v.n # 0
             \/ v.kind = "str" /\ v.chars # <<>>

\* a or b
Or(a, b) == IF Truthy(a) THEN a ELSE b

DigitChars == <<"0", "1", "2", "3", "4", "5", "6", "7", "8", "9">>

\* str(n) of a whole number 0 <= n < 100
StrOfNum(n) ==
    IF n < 10 THEN <<DigitChars[n + 1]>>
    ELSE <<DigitChars[(n \div 10) + 1], DigitChars[(n % 10) + 1]>>

\* str(v) of a value that is not None
StrOf(v) == IF v.kind = "int" THEN StrOfNum(v.n) ELSE v.chars

\* c.lower() of one character
LowerChar(c) ==
    LET upper == <<"A", "B", "C", "D", "E", "F", "G", "H", "I", "J", "K", "L",
                   "M", "N", "O", "P", "Q", "R", "S", "T", "U", "V", "W", "X",
                   "Y", "Z">>
        lower == <<"a", "b", "c", "d", "e", "f", "g", "h", "i", "j", "k", "l",
                   "m", "n", "o", "p", "q", "r", "s", "t", "u", "v", "w", "x",
                   "y", "z">>
    IN  IF \E k \in 1 .. 26 : upper[k] = c
        THEN lower[CHOOSE k \in 1 .. 26 : upper[k] = c]
        ELSE c

\* text.lower()
Lower(text) == [k \in 1 .. Len(text) |-> LowerChar(text[k])]

\* key in text
Contains(text, key) ==
    \E k \in 1 .. (Len(text) - Len(key) + 1) :
      SubSeq(text, k, k + Len(key) - 1) = key

\* text.isdigit()
IsDigit(text) ==
    /\ text # <<>>
    /\ \A k \in 1 .. Len(text) : \E d \in 1 .. 10 : DigitChars[d] = text[k]

\* int(text) of a text of digits
RECURSIVE IntOf(_)
IntOf(text) ==
    IF text = <<>> THEN 0
    ELSE LET n == Len(text)
         IN  IntOf(SubSeq(text, 1, n - 1)) * 10
               + (CHOOSE d \in 1 .. 10 : DigitChars[d] = text[n]) - 1

\* float(v) of a value that is not None: <<number>>, or <<>> when the
\* conversion raises ValueError (the texts sampled hold no fraction)
FloatOf(v) ==
    IF v.kind = "int" THEN <<v.n>>
    ELSE IF IsDigit(v.chars) THEN <<IntOf(v.chars)>>
    ELSE <<>>

FilledKeys == {<<"d", "o", "n", "e">>, <<"f", "i", "l", "l", "e", "d">>,
               <<"U+7D04", "U+5B9A">>, <<"c", "o", "m", "p", "l", "e", "t", "e">>}
CanceledKeys == {<<"c", "a", "n", "c", "e", "l", "e", "d">>,
                 <<"c", "a", "n", "c", "e", "l">>,
                 <<"e", "x", "p", "i", "r", "e", "d">>, <<"U+5931", "U+52B9">>}
RejectedKeys == {<<"r", "e", "j", "e", "c", "t", "e", "d">>,
                 <<"r", "e", "j", "e", "c", "t">>, <<"U+5374", "U+4E0B">>}
PartialKeys == {<<"p", "a", "r", "t", "i", "a", "l">>, <<"U+4E00", "U+90E8">>}

\* status_map of the numeric state codes
status_map ==
    [c \in 1 .. 8 |->
       CASE c \in {1, 2} -> "SENT"
         [] c = 3 -> "PARTIAL"
         [] c = 4 -> "FILLED"
         [] c = 6 -> "REJECTED"
         [] OTHER -> "CANCELED"]

\* the state text the mapping works on
state_text(payload) ==
    LET state_value == Or(Or(payload.State, payload.OrderState),
                          payload.Status)
    IN  IF Truthy(state_value) THEN Lower(StrOf(state_value)) ELSE <<>>

\* the two quantities the mapping falls back on: <<number>> each, <<>> for
\* None; both are None when either conversion raises
quantities(payload) ==
    LET qty == Or(payload.Qty, payload.OrderQty)
        cum_qty == Or(Or(payload.CumQty, payload.FilledQty),
                      payload.ExecuteQty)
        failed == \/ qty.kind # "none" /\ FloatOf(qty) = <<>>
                  \/ cum_qty.kind # "none" /\ FloatOf(cum_qty) = <<>>
    IN  IF failed THEN [qty_value |-> <<>>, cum_value |-> <<>>]
        ELSE [qty_value |-> IF qty.kind = "none" THEN <<>> ELSE FloatOf(qty),
              cum_value |-> IF cum_qty.kind = "none" THEN <<>>
                            ELSE FloatOf(cum_qty)]

_map_order_status(payload) ==
    LET text == state_text(payload)
        q == quantities(payload)
    IN  IF \E key \in FilledKeys : Contains(text, key) THEN "FILLED"
        ELSE IF \E key \in CanceledKeys : Contains(text, key) THEN "CANCELED"
        ELSE IF \E key \in RejectedKeys : Contains(text, key) THEN "REJECTED"
        ELSE IF \E key \in PartialKeys : Contains(text, key) THEN "PARTIAL"
        ELSE IF IsDigit(text) /\ IntOf(text) \in DOMAIN status_map
        THEN status_map[IntOf(text)]
        ELSE IF /\ q.qty_value # <<>> /\ q.qty_value # <<0>>
                /\ q.cum_value # <<>>
                /\ q.cum_value[1] >= q.qty_value[1]
        THEN "FILLED"
        ELSE IF /\ q.qty_value # <<>> /\ q.qty_value # <<0>>
                /\ q.cum_value # <<>>
                /\ 0 < q.cum_value[1] /\ q.cum_value[1] < q.qty_value[1]
        THEN "PARTIAL"
        ELSE IF text # <<>> THEN "SENT"
        ELSE "ERROR"

\* the payloads of an order inquiry: the state under its three keys, as a
\* text or as a code, and the ordered and the filled quantity
StateValues ==
    {None, Num(0), Num(1), Num(3), Num(4), Num(7), Num(9),
     Text(<<"D", "o", "n", "e">>),
     Text(<<"c", "a", "n", "c", "e", "l", "e", "d">>),
     Text(<<"R", "e", "j", "e", "c", "t">>),
     Text(<<"p", "a", "r", "t", "i", "a", "l">>),
     Text(<<"U+4E00", "U+90E8", "U+7D04", "U+5B9A">>),
     Text(<<"w", "o", "r", "k", "i", "n", "g">>),
     Text(<<"1", "2">>), Text(<<"5">>)}
OrderStateValues == {None, Num(2)}
QtyValues == {None, Num(0), Num(2), Text(<<"2">>), Text(<<"x">>)}
CumQtyValues == {None, Num(0), Num(1), Num(2)}
FilledQtyValues == {None, Num(1)}

Payloads ==
    [State : StateValues, OrderState : OrderStateValues, Status : {None},
     Qty : QtyValues, OrderQty : {None}, CumQty : CumQtyValues,
     FilledQty : FilledQtyValues, ExecuteQty : {None}]

\* the orchestrator is not part of a specification of one pure function
NoTrader ==
    /\ state = "IDLE"
    /\ insts = <<>>
    /\ orders = [r \in OrderRole |-> 0]
    /\ order_keys = <<>>
    /\ entry_order = 0
    /\ profit_price = 0
    /\ loss_price = 0
    /\ force_exit_started_at = 0
    /\ last_force_exit_poll = 0
    /\ next_id = 1
    /\ poll_counts = <<>>
    /\ broker = "kabu"
    /\ fills_after_polls = 0
    /\ force_exit_use_market_close = FALSE
    /\ raised = FALSE
    /\ _confirmed_order_ids = {}

NoTraderStep ==
    UNCHANGED <<state, insts, orders, order_keys, entry_order, profit_price,
                loss_price, force_exit_started_at, last_force_exit_poll,
                next_id, poll_counts, broker, fills_after_polls,
                force_exit_use_market_close, raised, _confirmed_order_ids>>

InitStatus == NoTrader /\ input \in Payloads /\ output = <<>>

MapOrderStatus ==
    /\ output = <<>>
    /\ output' = <<_map_order_status(input)>>
    /\ UNCHANGED input
    /\ NoTraderStep

NextStatus == MapOrderStatus

SpecStatus == InitStatus /\ [][NextStatus]_vars

\* ------------------------------------------------- AutoTrader.calculate_qty
\* capital is a whole amount; entry_price is a price with one decimal
\* place, written in tenths (1002 is the float 100.2).
\* The float nearest to a price that is not a multiple of 0.5 is not that
\* price: of the sampled prices, these are stored slightly above ...
StoredAbove == {1, 1002}
\* ... and these slightly below their decimal value
StoredBelow == {3, 1001}

\* capital // entry_price on floats: the floor of the quotient of the stored
\* values; where the decimal quotient is a whole number k, the stored
\* quotient lies just beside k, on the side the stored price puts it
float_floordiv(capital, entry_price) ==
    LET k == (10 * capital) \div entry_price
        whole == (10 * capital) % entry_price = 0
        short == \/ capital > 0 /\ entry_price \in StoredAbove
                 \/ capital < 0 /\ entry_price \in StoredBelow
    IN  IF whole /\ short THEN k - 1 ELSE k

calculate_qty(capital, entry_price) ==
    IF entry_price <= 0 THEN 0
    ELSE float_floordiv(capital, entry_price)

Capitals == {-100, -1, 0, 1, 3, 99, 100, 999, 1000, 1001, 100200}
EntryPrices == {-1000, 0, 1, 3, 5, 10, 1000, 1001, 1002, 1005}

InitQty ==
    /\ NoTrader
    /\ input \in [capital : Capitals, entry_price : EntryPrices]
    /\ output = <<>>

CalculateQty ==
    /\ output = <<>>
    /\ output' = <<calculate_qty(input.capital, input.entry_price)>>
    /\ UNCHANGED input
    /\ NoTraderStep

NextQty == CalculateQty

SpecQty == InitQty /\ [][NextQty]_vars

\* ------------------------------------------- KabuStationBroker.request_json
\* What the server does with one HTTP call; a token call is answered with
\* a token, with a body without one, or fails like any other call.
AttemptOutcomes == {"ok", "http_401", "http_500", "url_error"}
FetchOutcomes == {"token", "no_token", "http_401", "http_500", "url_error"}

\* the exception _request_json leaves with ("none": it returns the body):
\* an HTTPError is handed on, a URLError becomes a RuntimeError
RaisedBy(outcome) ==
    CASE outcome = "http_401" -> "HTTPError 401"
      [] outcome = "http_500" -> "HTTPError 500"
      [] outcome = "url_error" -> "RuntimeError"
      [] OTHER -> "none"

\* b: the adapter in the middle of one request_json: whether it holds a
\* token, the HTTP calls made so far, how many of them were token calls, and
\* the exception that is unwinding

\* the call of the request itself
_request_json(b, outcome) ==
    [b EXCEPT !.trace = Append(@, "request"), !.exc = RaisedBy(outcome)]

\* fetch_token: a token call; a body without a token is a RuntimeError
fetch_token(b, outcome) ==
    [b EXCEPT !.trace = Append(@, "fetch_token"),
              !.fetches = @ + 1,
              !.exc = IF outcome = "no_token" THEN "RuntimeError"
                      ELSE RaisedBy(outcome),
              !.api_token = IF outcome = "token" THEN TRUE ELSE @]

\* every HTTPError is answered with a refresh and a retry
request_json_RetriesAll(api_token, fetch, attempt) ==
    LET b0 == [api_token |-> api_token, trace |-> <<>>, fetches |-> 0,
               exc |-> "none"]
        b1 == IF ~b0.api_token THEN fetch_token(b0, fetch[1]) ELSE b0
        b2 == _request_json(b1, attempt[1])
        b3 == fetch_token([b2 EXCEPT !.exc = "none"], fetch[b2.fetches + 1])
    IN  IF b1.exc # "none" THEN b1
        ELSE IF b2.exc \in {"HTTPError 401", "HTTPError 500"}
        THEN IF b3.exc # "none" THEN b3
             ELSE _request_json(b3, attempt[2])
        ELSE b2

\* fetch, attempt: the outcomes of the token calls and of the calls of the
\* request, in the order they are made
request_json(api_token, fetch, attempt) ==
    LET b0 == [api_token |-> api_token, trace |-> <<>>, fetches |-> 0,
               exc |-> "none"]
        b1 == IF ~b0.api_token THEN fetch_token(b0, fetch[1]) ELSE b0
        b2 == _request_json(b1, attempt[1])
        b3 == fetch_token([b2 EXCEPT !.exc = "none"], fetch[b2.fetches + 1])
    IN  IF b1.exc # "none" THEN b1
        ELSE IF b2.exc = "HTTPError 401"
        THEN IF b3.exc # "none" THEN b3
             ELSE _request_json(b3, attempt[2])
        ELSE b2

InitRequest ==
    /\ NoTrader
    /\ input \in [api_token : BOOLEAN,
                  fetch : [1 .. 2 -> FetchOutcomes],
                  attempt : [1 .. 2 -> AttemptOutcomes]]
    /\ output = <<>>

RequestJson ==
    /\ output = <<>>
    /\ output' = <<request_json(input.api_token, input.fetch, input.attempt)>>
    /\ UNCHANGED input
    /\ NoTraderStep

NextRequest == RequestJson

SpecRequest == InitRequest /\ [][NextRequest]_vars

\* ------------------------------------------ AutoTrader._confirm_order_filled
\* An orchestrator that is asked, again and again, to confirm one of three
\* orders: one not yet submitted and two the brokerage adapter has accepted.
\* input is config.reconcile_on_success; output is the last call: the order,
\* its identifier, the identifiers confirmed before the call, the value
\* returned and the broker calls made.
InitConfirm ==
    /\ state = "EXIT_WAIT"
    /\ insts = <<NewOrder("ENTRY", "LIMIT", 1, 1, 100, 0),
                 [NewOrder("EXIT_PROFIT", "LIMIT", 1, 2, 105, 0)
                    EXCEPT !.order_id = 1, !.status = "SENT"],
                 [NewOrder("EXIT_LOSS", "STOP", 1, 2, 0, 95)
                    EXCEPT !.order_id = 2, !.status = "SENT"]>>
    /\ orders = [r \in OrderRole |-> 0]
    /\ order_keys = <<>>
    /\ entry_order = 0
    /\ profit_price = 0
    /\ loss_price = 0
    /\ force_exit_started_at = 0
    /\ last_force_exit_poll = 0
    /\ next_id = 3
    /\ poll_counts = <<>>
    /\ broker = "kabu"
    /\ fills_after_polls = 0
    /\ force_exit_use_market_close = FALSE
    /\ raised = FALSE
    /\ _confirmed_order_ids = {}
    /\ input \in BOOLEAN
    /\ output = <<>>

ConfirmOrderFilled ==
    /\ ~raised
    /\ \E i \in 1 .. Len(insts) :
         \E r \in _confirm_order_filled(
                    [Cur EXCEPT !.reconcile_on_success = input], i) :
           /\ insts' = r.s.insts
           /\ _confirmed_order_ids' = r.s.confirmed_order_ids
           /\ raised' = r.s.raised
           /\ output' = <<[inst |-> i,
                           order_id |-> insts[i].order_id,
                           confirmed |-> _confirmed_order_ids,
                           ok |-> r.ok,
                           calls |-> r.s.calls]>>
    /\ UNCHANGED <<state, orders, order_keys, entry_order, profit_price,
                   loss_price, force_exit_started_at, last_force_exit_poll,
                   next_id, poll_counts, broker, fills_after_polls,
                   force_exit_use_market_close, input>>

NextConfirm == ConfirmOrderFilled

SpecConfirm == InitConfirm /\ [][NextConfirm]_vars

\* ------------------------------------------------- the driver's poll loop
\* run_demo and the live worker: start_trade once, then poll() as long as
\* the state is neither EXIT_FILLED nor ERROR; the market-close rule is off.
InitLive == Init /\ ~force_exit_use_market_close

\* a tick in which every status the broker reports is a terminal one
PollTerminal ==
    /\ Driving
    /\ \E now \in WallNow : \E t \in poll(Cur, now) :
         /\ ~t.raised
         /\ \A k \in 1 .. Len(t.calls) :
              t.calls[k].op = "poll" => t.calls[k].res \in TerminalStatus
         /\ Apply(t)

NextLive == StartTrade \/ Poll

\* the loop keeps calling poll(); a tick in which the broker reports
\* terminal statuses only is not possible again and again without happening
SpecLive ==
    /\ InitLive /\ [][NextLive]_vars
    /\ WF_vars(Poll)
    /\ SF_vars(PollTerminal)

\* ----------------------------------------------------------------- run_demo
\* run_demo(fills_after_polls = n): a DemoBroker, the market-close rule off
\* (the default), start_trade once and then poll() while the state is
\* neither EXIT_FILLED nor ERROR. output is the state after each tick, so
\* Len(output) is the number of ticks made.
MaxFills == 5
DemoFills == 0 .. MaxFills

InitDemo ==
    /\ state = "IDLE"
    /\ insts = <<>>
    /\ orders = [r \in OrderRole |-> 0]
    /\ order_keys = <<>>
    /\ entry_order = 0
    /\ profit_price = 0
    /\ loss_price = 0
    /\ force_exit_started_at = 0
    /\ last_force_exit_poll = 0
    /\ next_id = 1
    /\ poll_counts = <<>>
    /\ broker = "demo"
    /\ fills_after_polls \in DemoFills
    /\ force_exit_use_market_close = FALSE
    /\ raised = FALSE
    /\ _confirmed_order_ids = {}
    /\ input = <<>>
    /\ output = <<>>

DemoStartTrade ==
    /\ state = "IDLE"
    /\ StartTrade

DemoPoll ==
    /\ state \notin {"IDLE", "EXIT_FILLED", "ERROR"}
    /\ Driving
    /\ \E t \in poll(Cur, start_time - 1) :
         /\ ~t.over
         /\ state' = t.state
         /\ insts' = t.insts
         /\ orders' = t.orders
         /\ order_keys' = t.order_keys
         /\ entry_order' = t.entry_order
         /\ profit_price' = t.profit_price
         /\ loss_price' = t.loss_price
         /\ force_exit_started_at' = t.started_at
         /\ last_force_exit_poll' = t.last_poll
         /\ next_id' = t.next_id
         /\ poll_counts' = t.poll_counts
         /\ raised' = t.raised
         /\ _confirmed_order_ids' = t.confirmed_order_ids
         /\ output' = Append(output, t.state)
    /\ UNCHANGED <<broker, fills_after_polls, force_exit_use_market_close,
                   input>>

NextDemo == DemoStartTrade \/ DemoPoll

\* run_demo makes its next call as long as its loop has not ended
SpecDemo == InitDemo /\ [][NextDemo]_vars /\ WF_vars(NextDemo)

\* ------------------------------------------------------------ properties
\* A property reads, in every reachable state, the outcomes an operation
\* called there can have: the snapshot t it ends in and the broker calls
\* t.calls it has made on the way.

\* the operation came back to its caller (no exception)
Returned(t) == ~t.raised /\ ~t.over

Idx(t) == 1 .. Len(t.calls)
Legs == {"EXIT_PROFIT", "EXIT_LOSS"}
OtherLeg(role) == IF role = "EXIT_PROFIT" THEN "EXIT_LOSS" ELSE "EXIT_PROFIT"
Submits(t) == SelectSeq(t.calls, LAMBDA c : c.op = "submit")

\* the instances of a role that are not in a terminal status
Live(t, role) ==
    {j \in 1 .. Len(t.insts) :
       t.insts[j].role = role /\ t.insts[j].status \notin TerminalStatus}

\* ------------------------------------------------------------------- C1
\* C1: start_trade called in IDLE with an entry order of qty > 0 makes, when
\* it returns, exactly one broker call, a submit; the state is ENTRY_WAIT;
\* and the one non-terminal ENTRY order is the one the role map holds under
\* ENTRY, with status SENT and an identifier.
C1_StartTradeSubmitsEntry ==
    (Driving /\ state = "IDLE") =>
      \A e \in EntryOrders, pp \in ProfitPrices, lp \in LossPrices :
        \A t \in start_trade(Cur, e, pp, lp) :
          (Returned(t) /\ e.qty > 0) =>
            /\ Len(t.calls) = 1
            /\ t.calls[1].op = "submit"
            /\ t.state = "ENTRY_WAIT"
            /\ t.orders["ENTRY"] # 0
            /\ Live(t, "ENTRY") = {t.orders["ENTRY"]}
            /\ t.insts[t.orders["ENTRY"]].status = "SENT"
            /\ t.insts[t.orders["ENTRY"]].order_id # 0
            /\ t.insts[t.orders["ENTRY"]].qty = e.qty

\* start_trade is called in IDLE with a two-lot order and returns
C1_Witness ==
    /\ Driving
    /\ state = "IDLE"
    /\ \E e \in EntryOrders, pp \in ProfitPrices, lp \in LossPrices :
         \E t \in start_trade(Cur, e, pp, lp) :
           /\ Returned(t)
           /\ e.qty = 2
           /\ t.state = "ENTRY_WAIT"
           /\ Len(t.calls) = 1

\* ------------------------------------------------------------------- C2
\* C2: start_trade called in any state other than IDLE returns with the
\* state ERROR and has made no broker call (no submit, poll or cancel); no
\* order is created, so no second ENTRY order is submitted.
C2_StartTradeOutsideIdle ==
    (Driving /\ state # "IDLE") =>
      \A e \in EntryOrders, pp \in ProfitPrices, lp \in LossPrices :
        \A t \in start_trade(Cur, e, pp, lp) :
          /\ Returned(t)
          /\ t.state = "ERROR"
          /\ t.calls = <<>>
          /\ t.insts = insts
          /\ t.orders = orders

\* start_trade is called a second time, right after the first
C2_Witness ==
    /\ Driving
    /\ state = "ENTRY_WAIT"
    /\ insts[orders["ENTRY"]].status = "SENT"
    /\ \E e \in EntryOrders, pp \in ProfitPrices, lp \in LossPrices :
         \E t \in start_trade(Cur, e, pp, lp) :
           t.state = "ERROR" /\ t.calls = <<>>

\* ------------------------------------------------------------------- C3
\* call k of the tick polled the ENTRY order in ENTRY_WAIT and got FILLED
EntryFilledAt(t, k) ==
    /\ t.calls[k].op = "poll"
    /\ t.calls[k].role = "ENTRY"
    /\ t.calls[k].st = "ENTRY_WAIT"
    /\ t.calls[k].res = "FILLED"

\* C3: a poll() tick that observes the ENTRY order FILLED in ENTRY_WAIT
\* creates exactly two orders and submits exactly these two, EXIT_LOSS
\* before EXIT_PROFIT, both while the state is ENTRY_FILLED, and ends in
\* EXIT_WAIT.
C3_EntryFilledPlacesBracket ==
    (Driving /\ state = "ENTRY_WAIT") =>
      \A n \in WallNow : \A t \in poll(Cur, n) :
        (Returned(t) /\ \E k \in Idx(t) : EntryFilledAt(t, k)) =>
          LET sub == Submits(t)
          IN  /\ Len(t.insts) = Len(insts) + 2
              /\ Len(sub) = 2
              /\ sub[1].role = "EXIT_LOSS"
              /\ sub[2].role = "EXIT_PROFIT"
              /\ {sub[1].inst, sub[2].inst} =
                   Len(insts) + 1 .. Len(insts) + 2
              /\ sub[1].st = "ENTRY_FILLED"
              /\ sub[2].st = "ENTRY_FILLED"
              /\ t.state = "EXIT_WAIT"

\* a tick in ENTRY_WAIT observes the ENTRY order FILLED and returns
C3_Witness ==
    /\ Driving
    /\ state = "ENTRY_WAIT"
    /\ \E n \in WallNow : \E t \in poll(Cur, n) :
         /\ Returned(t)
         /\ \E k \in Idx(t) : EntryFilledAt(t, k)
         /\ t.state = "EXIT_WAIT"
         /\ Len(Submits(t)) = 2

\* ------------------------------------------------------------------- C4
\* call k of the tick polled a bracket leg in state st and got FILLED while
\* the sibling leg was still working
LegFilledAt(t, k, st) ==
    /\ t.calls[k].op = "poll"
    /\ t.calls[k].role \in Legs
    /\ t.calls[k].st = st
    /\ t.calls[k].res = "FILLED"
    /\ t.calls[k].sibling \in {"SENT", "PARTIAL"}

\* call k of the tick asked the broker to cancel the sibling of the leg of
\* call k - 1, with result res
SiblingCancelAt(t, k, res) ==
    /\ k \in Idx(t)
    /\ t.calls[k].op = "cancel"
    /\ t.calls[k].role = OtherLeg(t.calls[k - 1].role)
    /\ t.calls[k].res = res

\* C4 (as claimed): in EXIT_WAIT, a tick that observes one bracket leg
\* FILLED and whose cancel of the sibling leg the broker refuses submits an
\* EXIT_MARKET order and ends in FORCE_EXITING, or in ERROR.
C4_RefusedCancelEndsForceExiting ==
    (Driving /\ state = "EXIT_WAIT") =>
      \A n \in WallNow : \A t \in poll(Cur, n) :
        (/\ Returned(t)
         /\ \E k \in Idx(t) : /\ LegFilledAt(t, k, "EXIT_WAIT")
                              /\ SiblingCancelAt(t, k + 1, "fail")) =>
          /\ \E j \in Idx(t) : /\ t.calls[j].op = "submit"
                               /\ t.calls[j].role = "EXIT_MARKET"
          /\ t.state \in {"FORCE_EXITING", "ERROR"}

\* ------------------------------------------------------------------- C5
\* the cancel requests the tick sent to instance i
CancelsOf(t, i) ==
    {j \in Idx(t) : t.calls[j].op = "cancel" /\ t.calls[j].inst = i}

\* C5: in EXIT_WAIT, a tick that observes one bracket leg FILLED while the
\* sibling leg is still working, and whose cancel of the sibling the broker
\* confirms, sends the sibling exactly one cancel request, leaves it
\* CANCELED, and ends in EXIT_FILLED.
C5_ConfirmedCancelEndsExitFilled ==
    (Driving /\ state = "EXIT_WAIT") =>
      \A n \in WallNow : \A t \in poll(Cur, n) :
        Returned(t) =>
          \A k \in Idx(t) :
            (/\ LegFilledAt(t, k, "EXIT_WAIT")
             /\ SiblingCancelAt(t, k + 1, "ok")) =>
              /\ CancelsOf(t, t.calls[k + 1].inst) = {k + 1}
              /\ t.insts[t.calls[k + 1].inst].status = "CANCELED"
              /\ t.insts[t.calls[k].inst].status = "FILLED"
              /\ t.state = "EXIT_FILLED"

\* a tick in EXIT_WAIT observes EXIT_LOSS FILLED and gets EXIT_PROFIT
\* cancelled
C5_Witness ==
    /\ Driving
    /\ state = "EXIT_WAIT"
    /\ \E n \in WallNow : \E t \in poll(Cur, n) :
         /\ Returned(t)
         /\ \E k \in Idx(t) : /\ LegFilledAt(t, k, "EXIT_WAIT")
                              /\ t.calls[k].role = "EXIT_LOSS"
                              /\ SiblingCancelAt(t, k + 1, "ok")
         /\ t.state = "EXIT_FILLED"

\* ------------------------------------------------------------------- C6
\* call k of the tick polled a bracket leg and got FILLED while the status
\* recorded for its sibling was already FILLED
BothFilledAt(t, k) ==
    /\ t.calls[k].op = "poll"
    /\ t.calls[k].role \in Legs
    /\ t.calls[k].res = "FILLED"
    /\ t.calls[k].sibling = "FILLED"

\* C6: a tick in which a bracket leg polls FILLED while the recorded status
\* of its sibling is already FILLED ends in ERROR, never in EXIT_FILLED.
C6_BothLegsFilledIsError ==
    Driving =>
      \A n \in WallNow : \A t \in poll(Cur, n) :
        (Returned(t) /\ \E k \in Idx(t) : BothFilledAt(t, k)) =>
          t.state = "ERROR"

\* a tick observes the second leg FILLED after the first and returns
C6_Witness ==
    /\ Driving
    /\ \E n \in WallNow : \E t \in poll(Cur, n) :
         /\ Returned(t)
         /\ \E k \in Idx(t) : BothFilledAt(t, k)
         /\ t.state = "ERROR"

\* ------------------------------------------------------------------- C7
InWindow(n) == start_time <= n /\ n <= deadline_time

\* the EXIT_MARKET orders the tick submitted
MarketSubmits(t) ==
    {j \in Idx(t) : t.calls[j].op = "submit" /\ t.calls[j].role = "EXIT_MARKET"}

\* the tick read the monotonic clock for its polling step less than the
\* poll interval after the last forced-exit poll time (the time its forced
\* exit began, when the tick began it)
Throttled(t) ==
    /\ t.since # 0
    /\ t.mono - t.since < force_exit_poll_interval_sec

\* C7 (as claimed): with force_exit_use_market_close, a tick inside the
\* window, in IDLE, ENTRY_WAIT, ENTRY_FILLED or EXIT_WAIT, ends in
\* FORCE_EXITING and has submitted exactly one EXIT_MARKET order.
C7_WindowTickForcesExit ==
    (/\ Driving
     /\ force_exit_use_market_close
     /\ state \in {"IDLE", "ENTRY_WAIT", "ENTRY_FILLED", "EXIT_WAIT"}) =>
      \A n \in WallSamples : InWindow(n) =>
        \A t \in poll(Cur, n) :
          Returned(t) =>
            /\ t.state = "FORCE_EXITING"
            /\ Cardinality(MarketSubmits(t)) = 1

\* C7 (amended): with force_exit_use_market_close, a tick inside the window
\* - in ENTRY_FILLED or EXIT_WAIT begins by submitting one EXIT_MARKET
\*   order, its only broker call in that state, and goes on in
\*   FORCE_EXITING; when its polling step is throttled it ends in
\*   FORCE_EXITING with that one broker call;
\* - in IDLE or ENTRY_WAIT ends in ERROR with no broker call and no order
\*   created.
C7_WindowTickByState ==
    (Driving /\ force_exit_use_market_close) =>
      \A n \in WallSamples : InWindow(n) =>
        \A t \in poll(Cur, n) :
          Returned(t) =>
            /\ state \in {"IDLE", "ENTRY_WAIT"} =>
                 /\ t.state = "ERROR"
                 /\ t.calls = <<>>
                 /\ t.insts = insts
            /\ state \in {"ENTRY_FILLED", "EXIT_WAIT"} =>
                 /\ Len(t.calls) >= 1
                 /\ t.calls[1].op = "submit"
                 /\ t.calls[1].role = "EXIT_MARKET"
                 /\ t.calls[1].st = state
                 /\ \A k \in Idx(t) : k > 1 => t.calls[k].st # state
                 /\ Len(t.calls) > 1 => t.calls[2].st = "FORCE_EXITING"
                 /\ Throttled(t) =>
                      /\ t.state = "FORCE_EXITING"
                      /\ Len(t.calls) = 1

\* a tick at the deadline minute in EXIT_WAIT starts the forced exit and is
\* throttled
C7_Witness ==
    /\ Driving
    /\ force_exit_use_market_close
    /\ state = "EXIT_WAIT"
    /\ \E t \in poll(Cur, deadline_time) :
         /\ Returned(t)
         /\ Throttled(t)
         /\ t.state = "FORCE_EXITING"
         /\ MarketSubmits(t) = {1}

\* ------------------------------------------------------------------- C8
\* C8: with force_exit_use_market_close, a tick after the deadline, in
\* IDLE, ENTRY_WAIT, ENTRY_FILLED or EXIT_WAIT, ends in ERROR; it creates
\* no order and its only broker calls are cancel requests (no EXIT_MARKET
\* order is submitted).
C8_PastDeadlineIsError ==
    (/\ Driving
     /\ force_exit_use_market_close
     /\ state \in {"IDLE", "ENTRY_WAIT", "ENTRY_FILLED", "EXIT_WAIT"}) =>
      \A n \in WallSamples : n > deadline_time =>
        \A t \in poll(Cur, n) :
          Returned(t) =>
            /\ t.state = "ERROR"
            /\ \A k \in Idx(t) : t.calls[k].op = "cancel"
            /\ Len(t.insts) = Len(insts)

\* a tick one minute after the deadline in EXIT_WAIT, both legs working
C8_Witness ==
    /\ Driving
    /\ force_exit_use_market_close
    /\ state = "EXIT_WAIT"
    /\ \E t \in poll(Cur, deadline_time + 1) :
         /\ Returned(t)
         /\ t.state = "ERROR"
         /\ Len(t.calls) = 2

\* ------------------------------------------------------------------- C9
\* call k of the tick polled an order PARTIAL, partly filled, while the
\* state was not FORCE_EXITING (an order is polled once in a tick, so its
\* filled quantity at the end of the tick is the one observed)
PartialAt(t, k) ==
    /\ t.calls[k].op = "poll"
    /\ t.calls[k].res = "PARTIAL"
    /\ t.calls[k].st # "FORCE_EXITING"
    /\ 0 < t.insts[t.calls[k].inst].filled_qty
    /\ t.insts[t.calls[k].inst].filled_qty < t.insts[t.calls[k].inst].qty

\* the cancel requests sent to the order of call k after call k
CancelsAfter(t, k) == {j \in CancelsOf(t, t.calls[k].inst) : j > k}

\* the cancel of the order of call k is followed by exactly one submit, of
\* a new order that copies its role and price parameters, asks for what is
\* left, and holds its place in the role map
ReplacedAt(t, k) ==
    /\ k + 2 \in Idx(t)
    /\ t.calls[k + 2].op = "submit"
    /\ t.calls[k + 2].inst > Len(insts)
    /\ k + 3 \in Idx(t) => t.calls[k + 3].op # "submit"
    /\ LET o == t.insts[t.calls[k].inst]
           r == t.insts[t.calls[k + 2].inst]
       IN  /\ r.role = o.role
           /\ r.order_type = o.order_type
           /\ r.price = o.price
           /\ r.stop_trigger_price = o.stop_trigger_price
           /\ r.side = o.side
           /\ r.qty = o.qty - o.filled_qty
           /\ o.status = "CANCELED"
           /\ t.orders[o.role] = t.calls[k + 2].inst

\* C9 (as claimed): a partial fill observed outside FORCE_EXITING produces
\* exactly one cancel request for the original order and, when that cancel
\* succeeds, exactly one replacement of the same role and price parameters
\* for the quantity left, which supersedes the original in the role map.
C9_PartialFillOneCancel ==
    Driving =>
      \A n \in WallNow : \A t \in poll(Cur, n) :
        Returned(t) =>
          \A k \in Idx(t) : PartialAt(t, k) =>
            /\ Cardinality(CancelsAfter(t, k)) = 1
            /\ (k + 1 \in Idx(t) /\ t.calls[k + 1].res = "ok") =>
                 ReplacedAt(t, k)

\* C9 (amended): a partial fill observed outside FORCE_EXITING is followed
\* at once by a cancel request for the original order. When that cancel
\* succeeds it is the only cancel request the original gets after the
\* observation, and exactly one replacement of the same role and price
\* parameters for the quantity left is submitted and supersedes the
\* original in the role map. When the cancel is refused the state becomes
\* ERROR, nothing is submitted for that role, and entering ERROR sends the
\* original, if the role map still holds it, a further cancel request.
C9_PartialFillCancelReplace ==
    Driving =>
      \A n \in WallNow : \A t \in poll(Cur, n) :
        Returned(t) =>
          \A k \in Idx(t) : PartialAt(t, k) =>
            /\ k + 1 \in CancelsAfter(t, k)
            /\ t.calls[k + 1].res = "ok" =>
                 /\ CancelsAfter(t, k) = {k + 1}
                 /\ ReplacedAt(t, k)
            /\ t.calls[k + 1].res = "fail" =>
                 /\ t.state = "ERROR"
                 /\ t.orders[t.calls[k].role] = t.calls[k].inst =>
                      Cardinality(CancelsAfter(t, k)) >= 2
                 /\ \A j \in Idx(t) :
                      (j > k /\ t.calls[j].op = "submit") =>
                        t.calls[j].role # t.calls[k].role

\* a tick in EXIT_WAIT observes EXIT_PROFIT filled 1 of 2, gets it
\* cancelled and submits the replacement for the other lot
C9_Witness ==
    /\ Driving
    /\ state = "EXIT_WAIT"
    /\ \E n \in WallNow : \E t \in poll(Cur, n) :
         /\ Returned(t)
         /\ \E k \in Idx(t) : /\ PartialAt(t, k)
                              /\ t.calls[k].role = "EXIT_PROFIT"
                              /\ t.calls[k + 1].res = "ok"
                              /\ ReplacedAt(t, k)
                              /\ t.insts[t.calls[k + 2].inst].qty = 1

\* ------------------------------------------------------------------ C10
\* no order is submitted while the state is ERROR
NoSubmitInError(t) ==
    \A k \in Idx(t) : t.calls[k].st = "ERROR" => t.calls[k].op # "submit"

\* C10 (as claimed): once the state is ERROR no order is submitted to the
\* broker, neither by a later start_trade, poll or force_exit_market nor by
\* the rest of the tick that entered ERROR.
C10_NoSubmitOnceError ==
    Driving =>
      /\ \A n \in WallNow : \A t \in poll(Cur, n) :
           ~t.over => NoSubmitInError(t)
      /\ \A t \in force_exit_market(Cur) : ~t.over => NoSubmitInError(t)
      /\ \A e \in EntryOrders, pp \in ProfitPrices, lp \in LossPrices :
           \A t \in start_trade(Cur, e, pp, lp) :
             ~t.over => NoSubmitInError(t)

\* ------------------------------------------------------------------ C11
PollingStates == {"ENTRY_WAIT", "EXIT_WAIT", "FORCE_EXITING"}

\* call k of the tick polled an order in one of the polling states and the
\* broker answered REJECTED or ERROR
FailedAt(t, k) ==
    /\ t.calls[k].op = "poll"
    /\ t.calls[k].st \in PollingStates
    /\ t.calls[k].res \in {"REJECTED", "ERROR"}

\* the tick sent instance j a cancel request after call k
CancelledAfter(t, j, k) ==
    \E c \in Idx(t) : c > k /\ t.calls[c].op = "cancel" /\ t.calls[c].inst = j

\* C11 (as claimed): a tick that polls an order REJECTED or ERROR in
\* ENTRY_WAIT, EXIT_WAIT or FORCE_EXITING ends in ERROR, polls no order
\* after it, and sends a cancel request to every other order that is not
\* terminal (an order that is still not terminal when the tick ends was not
\* terminal at the observation either: only a poll or a confirmed cancel
\* changes a status).
C11_FailedPollCancelsTheRest ==
    Driving =>
      \A n \in WallNow : \A t \in poll(Cur, n) :
        Returned(t) =>
          \A k \in Idx(t) : FailedAt(t, k) =>
            /\ t.state = "ERROR"
            /\ \A c \in Idx(t) : c > k => t.calls[c].op # "poll"
            /\ \A j \in 1 .. Len(t.insts) :
                 (j # t.calls[k].inst
                  /\ t.insts[j].status \notin TerminalStatus) =>
                   CancelledAfter(t, j, k)

\* ------------------------------------------------------------------ C12
\* the operation made a broker call while the state was EXIT_FILLED: the
\* state had become EXIT_FILLED and the operation went on
WentOnInExitFilled(t) == \E k \in Idx(t) : t.calls[k].st = "EXIT_FILLED"

\* C12 (as claimed): EXIT_FILLED is terminal. A start_trade, poll or
\* force_exit_market called in EXIT_FILLED leaves the state EXIT_FILLED,
\* and a tick that goes on after the state became EXIT_FILLED ends in
\* EXIT_FILLED.
C12_ExitFilledIsTerminal ==
    Driving =>
      /\ \A n \in WallNow : \A t \in poll(Cur, n) :
           (Returned(t) /\ (state = "EXIT_FILLED" \/ WentOnInExitFilled(t)))
             => t.state = "EXIT_FILLED"
      /\ state = "EXIT_FILLED" =>
           /\ \A t \in force_exit_market(Cur) : t.state = "EXIT_FILLED"
           /\ \A e \in EntryOrders, pp \in ProfitPrices, lp \in LossPrices :
                \A t \in start_trade(Cur, e, pp, lp) :
                  t.state = "EXIT_FILLED"

\* ------------------------------------------------------------------ C13
\* C13: force_exit_market called in IDLE or ENTRY_WAIT returns with the
\* state ERROR and has touched neither the broker nor the orders: no call is
\* made, no order is created, and the role map and every order are as they
\* were.
C13_ForceExitBeforePosition ==
    (Driving /\ state \in {"IDLE", "ENTRY_WAIT"}) =>
      \A t \in force_exit_market(Cur) :
        /\ Returned(t)
        /\ t.state = "ERROR"
        /\ t.calls = <<>>
        /\ t.insts = insts
        /\ t.orders = orders

\* force_exit_market is called in ENTRY_WAIT while the entry order is working
C13_Witness ==
    /\ Driving
    /\ state = "ENTRY_WAIT"
    /\ insts[orders["ENTRY"]].status = "SENT"
    /\ \E t \in force_exit_market(Cur) : t.state = "ERROR" /\ t.calls = <<>>

\* ------------------------------------------------------------------ C14
\* C14: force_exit_market called in ENTRY_FILLED, EXIT_WAIT or
\* FORCE_EXITING, when it returns, has created exactly one order, an
\* EXIT_MARKET order the role map now holds, has made exactly one broker
\* call, the submit of that order, and ends in FORCE_EXITING; the watchdog
\* start and the last forced-exit poll time are one and the same reading of
\* the monotonic clock.
C14_ForceExitSubmitsMarket ==
    (Driving /\ state \in {"ENTRY_FILLED", "EXIT_WAIT", "FORCE_EXITING"}) =>
      \A t \in force_exit_market(Cur) :
        Returned(t) =>
          /\ Len(t.insts) = Len(insts) + 1
          /\ t.insts[Len(t.insts)].role = "EXIT_MARKET"
          /\ t.insts[Len(t.insts)].status = "SENT"
          /\ t.orders["EXIT_MARKET"] = Len(t.insts)
          /\ Len(t.calls) = 1
          /\ t.calls[1].op = "submit"
          /\ t.calls[1].inst = Len(t.insts)
          /\ t.state = "FORCE_EXITING"
          /\ t.started_at \in time_monotonic(Cur)
          /\ t.last_poll = t.started_at

\* force_exit_market is called in EXIT_WAIT, and a second time in
\* FORCE_EXITING at a later reading of the clock
C14_Witness ==
    /\ Driving
    /\ state = "FORCE_EXITING"
    /\ \E t \in force_exit_market(Cur) :
         /\ Returned(t)
         /\ t.state = "FORCE_EXITING"
         /\ t.started_at > force_exit_started_at
         /\ t.last_poll = t.started_at

\* ------------------------------------------------------------------ C15
\* the tick read the monotonic clock for its polling step after the
\* watchdog limit, counted from the recorded start of the forced exit
Overdue(t) == t.mono - force_exit_started_at > force_exit_max_duration_sec

\* the tick touched no order and no forced-exit timestamp
NothingTouched(t) ==
    /\ t.insts = insts
    /\ t.orders = orders
    /\ t.started_at = force_exit_started_at
    /\ t.last_poll = last_force_exit_poll

\* C15 (as claimed): a tick in FORCE_EXITING that runs less than
\* force_exit_poll_interval_sec after the last forced-exit poll polls no
\* order and changes no order and not the state.
C15_ThrottledTickDoesNothing ==
    (Driving /\ state = "FORCE_EXITING") =>
      \A n \in WallNow : \A t \in poll(Cur, n) :
        (Returned(t) /\ Throttled(t)) =>
          /\ \A k \in Idx(t) : t.calls[k].op # "poll"
          /\ t.insts = insts
          /\ t.orders = orders
          /\ t.state = "FORCE_EXITING"

\* C15 (amended): a tick in FORCE_EXITING that runs less than
\* force_exit_poll_interval_sec after the last forced-exit poll makes no
\* broker call and changes no order and no timestamp; it leaves the state
\* FORCE_EXITING unless more than force_exit_max_duration_sec have passed
\* since the forced exit began, and then it ends in ERROR.
C15_ThrottledTickPollsNothing ==
    (Driving /\ state = "FORCE_EXITING") =>
      \A n \in WallNow : \A t \in poll(Cur, n) :
        (Returned(t) /\ Throttled(t)) =>
          /\ t.calls = <<>>
          /\ NothingTouched(t)
          /\ t.state = IF Overdue(t) THEN "ERROR" ELSE "FORCE_EXITING"

\* a tick in FORCE_EXITING one second after the last forced-exit poll,
\* while an order is working
C15_Witness ==
    /\ Driving
    /\ state = "FORCE_EXITING"
    /\ \E r \in OrderRole : Live(Cur, r) # {}
    /\ \E n \in WallNow : \E t \in poll(Cur, n) :
         /\ Returned(t)
         /\ Throttled(t)
         /\ t.mono = t.since + 1
         /\ ~Overdue(t)
         /\ t.state = "FORCE_EXITING"
         /\ t.calls = <<>>

\* ------------------------------------------------------------------ C16
\* C16: a tick in FORCE_EXITING that runs more than
\* force_exit_max_duration_sec after the forced exit began ends in ERROR
\* and polls no order (it makes no broker call and touches no order),
\* whether or not the poll interval has passed.
C16_WatchdogEndsInError ==
    (Driving /\ state = "FORCE_EXITING") =>
      \A n \in WallNow : \A t \in poll(Cur, n) :
        Overdue(t) =>
          /\ Returned(t)
          /\ t.state = "ERROR"
          /\ t.calls = <<>>
          /\ NothingTouched(t)

\* a tick 601 s after the forced exit began and one second after the last
\* forced-exit poll, while an order is working
C16_Witness ==
    /\ Driving
    /\ state = "FORCE_EXITING"
    /\ \E r \in OrderRole : Live(Cur, r) # {}
    /\ \E n \in WallNow : \E t \in poll(Cur, n) :
         /\ Overdue(t)
         /\ Throttled(t)
         /\ t.state = "ERROR"

\* ------------------------------------------------------------------ C17
\* C17 (as claimed): among all the Order instances created for a role, the
\* ones superseded in the role map included, at most one is not terminal.
C17_OneLiveOrderPerRole ==
    \A role \in OrderRole : Cardinality(Live(Cur, role)) <= 1

\* ------------------------------------------------------------------ C18
\* C18 (as claimed): every order has 0 <= filled_qty <= qty, and a FILLED
\* order has filled_qty = qty.
C18_FilledQtyWithinQty ==
    \A i \in 1 .. Len(insts) :
      /\ 0 <= insts[i].filled_qty
      /\ insts[i].filled_qty <= insts[i].qty
      /\ insts[i].status = "FILLED" => insts[i].filled_qty = insts[i].qty

\* ------------------------------------------------------------------ C19
\* no order is polled or asked to cancel when its status is terminal (a
\* status changes only by one of these two calls)
TerminalLeftAlone(t) ==
    \A k \in Idx(t) :
      t.calls[k].op \in {"poll", "cancel"} =>
        t.calls[k].was \notin TerminalStatus

\* C19 (as claimed): an order whose status is FILLED, CANCELED, REJECTED or
\* ERROR is not polled, is sent no cancel request and keeps its status, in
\* every later step of every operation.
C19_TerminalOrderLeftAlone ==
    Driving =>
      /\ \A n \in WallNow : \A t \in poll(Cur, n) :
           ~t.over => TerminalLeftAlone(t)
      /\ \A t \in force_exit_market(Cur) : ~t.over => TerminalLeftAlone(t)
      /\ \A e \in EntryOrders, pp \in ProfitPrices, lp \in LossPrices :
           \A t \in start_trade(Cur, e, pp, lp) :
             ~t.over => TerminalLeftAlone(t)

\* ------------------------------------------------------------------ C20
\* the instances the operation submitted, in the order of the submits
Submitted(t) == [k \in 1 .. Len(Submits(t)) |-> Submits(t)[k].inst]

\* Every submit of the operation hands over an order the operation itself
\* created, whose status is NEW, and no order twice; when the operation
\* returns, every order it created has been submitted.
SubmitsOnceEach(t) ==
    LET sub == Submitted(t)
    IN  /\ \A k \in 1 .. Len(sub) :
             /\ sub[k] > Len(insts)
             /\ Submits(t)[k].was = "NEW"
             /\ \A j \in 1 .. Len(sub) : sub[j] = sub[k] => j = k
        /\ Returned(t) =>
             {sub[k] : k \in 1 .. Len(sub)} = Len(insts) + 1 .. Len(t.insts)

\* C20: every Order instance is passed to the broker's submit exactly once
\* over the whole trade, and only while its status is NEW: an operation
\* submits the orders it creates, once each, as soon as they are created
\* and while they are NEW, and no order that existed before it; so between
\* operations no order is NEW. (An operation that a broker failure ends by
\* an exception stops there: an order it had created and not yet submitted
\* is never submitted, and no other operation follows.)
C20_SubmittedExactlyOnce ==
    Driving =>
      /\ \A i \in 1 .. Len(insts) : insts[i].status # "NEW"
      /\ \A n \in WallNow : \A t \in poll(Cur, n) :
           ~t.over => SubmitsOnceEach(t)
      /\ \A t \in force_exit_market(Cur) : ~t.over => SubmitsOnceEach(t)
      /\ \A e \in EntryOrders, pp \in ProfitPrices, lp \in LossPrices :
           \A t \in start_trade(Cur, e, pp, lp) :
             ~t.over => SubmitsOnceEach(t)

\* a tick in EXIT_WAIT replaces both partly filled legs: with the entry and
\* the two legs, five orders have been submitted, once each
C20_Witness ==
    /\ Driving
    /\ state = "EXIT_WAIT"
    /\ Len(insts) = 3
    /\ \E n \in WallNow : \E t \in poll(Cur, n) :
         /\ Returned(t)
         /\ Len(t.insts) = 5
         /\ Submitted(t) = <<4, 5>>
         /\ t.insts[4].role = "EXIT_PROFIT"
         /\ t.insts[5].role = "EXIT_LOSS"

\* ------------------------------------------------------------------ C21
\* the positions of the status polls in the call log of an operation
Polls(t) == {k \in Idx(t) : t.calls[k].op = "poll"}

\* an instance that did not exist when the tick began
CreatedInTick(t, k) == t.calls[k].inst > Len(insts)

\* the call at position k is made by the polling step of the tick: a status
\* poll, or a call that follows one (the market-close step polls nothing)
InPollingStep(t, k) == \E j \in Polls(t) : j <= k

StoppedAtFailure(t) ==
    LET n == Len(t.calls)
    IN  /\ n > 0
        /\ t.calls[n].res = "raise"
        /\ \A k \in 1 .. (n - 1) : t.calls[k].res # "raise"
        /\ t.state = t.calls[n].st
        /\ t.insts[t.calls[n].inst].status = t.calls[n].was

\* a broker call that fails is never swallowed
FailurePropagates(t) ==
    (\E k \in Idx(t) : t.calls[k].res = "raise") => t.raised

\* C22: when a broker call (submit, poll or cancel) does not complete during
\* start_trade, poll or force_exit_market, the operation raises to its
\* caller: the failing call is its last broker call and the state stays the
\* one the call was made in (the operation does not set ERROR); for
\* start_trade the state stays IDLE and the entry order stays NEW without an
\* identifier.
C22_BrokerFailurePropagates ==
    Driving =>
      /\ \A n \in WallNow : \A t \in poll(Cur, n) :
           /\ FailurePropagates(t)
           /\ t.raised => StoppedAtFailure(t)
      /\ \A t \in force_exit_market(Cur) :
           /\ FailurePropagates(t)
           /\ t.raised => StoppedAtFailure(t)
      /\ \A e \in EntryOrders, pp \in ProfitPrices, lp \in LossPrices :
           \A t \in start_trade(Cur, e, pp, lp) :
             /\ FailurePropagates(t)
             /\ t.raised =>
                  /\ StoppedAtFailure(t)
                  /\ t.state = "IDLE"
                  /\ t.entry_order = Len(t.insts)
                  /\ t.insts[t.entry_order].status = "NEW"
                  /\ t.insts[t.entry_order].order_id = 0

\* in EXIT_WAIT with the brokerage adapter: a tick that is left by a failing
\* call after an earlier call of the tick went through, and a forced exit
\* whose submit fails
C22_Witness ==
    /\ Driving /\ state = "EXIT_WAIT"
    /\ \E n \in WallNow : \E t \in poll(Cur, n) :
         t.raised /\ Len(t.calls) >= 2 /\ t.state = "EXIT_WAIT"
    /\ \E t \in force_exit_market(Cur) :
         t.raised /\ t.state = "EXIT_WAIT"

\* ------------------------------------------------------------------ C23
\* the orchestrator as it stands, configured with reconcile_on_success = b
Configured(b) == [Cur EXCEPT !.reconcile_on_success = b]

\* the outcomes S of an operation, the configuration flag set aside
Unconfigured(S) == {[t EXCEPT !.reconcile_on_success = TRUE] : t \in S}

\* C23: reconcile_on_success has no effect on start_trade, poll and
\* force_exit_market: from every reachable state and for every broker
\* response, the orchestrator configured with true and the one configured
\* with false make the same broker calls in the same order and end in the
\* same state with the same orders; no order identifier is ever recorded as
\* confirmed, and an order reported FILLED is polled once in the tick (no
\* confirming poll) and acted on in it: a filled entry order leaves
\* ENTRY_WAIT in the tick that polled it.
C23_ReconcileToggleHasNoEffect ==
    /\ _confirmed_order_ids = {}
    /\ Driving =>
         /\ \A n \in WallNow :
              /\ Unconfigured(poll(Configured(TRUE), n))
                   = Unconfigured(poll(Configured(FALSE), n))
              /\ \A t \in poll(Cur, n) : \A k \in Polls(t) :
                   t.calls[k].res = "FILLED" =>
                     /\ \A j \in Polls(t) :
                          t.calls[j].inst = t.calls[k].inst => j = k
                     /\ (Returned(t) /\ t.calls[k].role = "ENTRY"
                           /\ t.calls[k].st = "ENTRY_WAIT")
                          => t.state \in {"EXIT_WAIT", "ERROR"}
         /\ Unconfigured(force_exit_market(Configured(TRUE)))
              = Unconfigured(force_exit_market(Configured(FALSE)))
         /\ \A e \in EntryOrders, pp \in ProfitPrices, lp \in LossPrices :
              Unconfigured(start_trade(Configured(TRUE), e, pp, lp))
                = Unconfigured(start_trade(Configured(FALSE), e, pp, lp))

\* with reconcile_on_success = true, a tick polls the entry order once, is
\* told FILLED, and submits the two bracket orders in that tick
C23_Witness ==
    /\ Driving /\ state = "ENTRY_WAIT" /\ reconcile_on_success
    /\ \E n \in WallNow : \E t \in poll(Configured(TRUE), n) :
         /\ Returned(t) /\ t.state = "EXIT_WAIT"
         /\ Cardinality(Polls(t)) = 1
         /\ \E k \in Polls(t) : t.calls[k].res = "FILLED"
         /\ Len(Submits(t)) = 2
         /\ t.confirmed_order_ids = {}

\* ------------------------------------------------------------------ C24
\* the state of the payload is one the mapping knows: a keyword in the
\* text, or one of the codes of status_map
KnownState(payload) ==
    LET text == state_text(payload)
    IN  \/ \E key \in FilledKeys \cup CanceledKeys \cup RejectedKeys
                        \cup PartialKeys : Contains(text, key)
        \/ IsDigit(text) /\ IntOf(text) \in DOMAIN status_map

\* the quantities of the payload decide between FILLED and PARTIAL
DecisiveQuantities(payload) ==
    LET q == quantities(payload)
    IN  /\ q.qty_value # <<>> /\ q.qty_value # <<0>>
        /\ q.cum_value # <<>> /\ q.cum_value[1] > 0

\* C24: _map_order_status returns ERROR, and never SENT, for every payload
\* whose state it cannot classify: the state text or code matches no known
\* keyword or code and the quantity fields are not decisive.
C24_UnknownStateIsError ==
    (output # <<>> /\ ~KnownState(input) /\ ~DecisiveQuantities(input))
      => output = <<"ERROR">>

\* ------------------------------------------------------------------ C25
\* C25: calculate_qty(capital, entry_price) is floor(capital / entry_price)
\* when entry_price > 0 and 0 when entry_price <= 0; for capital >= 0 and
\* entry_price > 0 the result q satisfies
\* q * entry_price <= capital < (q + 1) * entry_price.
\* (entry_price is in tenths, so capital / entry_price is 10 * capital over
\* the figure.)
C25_CalculateQtyIsFloor ==
    output # <<>> =>
      LET c == input.capital
          p == input.entry_price
          q == output[1]
      IN  /\ p <= 0 => q = 0
          /\ p > 0 => q = (10 * c) \div p
          /\ (p > 0 /\ c >= 0) => (q * p <= 10 * c /\ 10 * c < (q + 1) * p)

\* ------------------------------------------------------------------ C26
\* the positions of the calls of the request, and of the token calls made
\* after the first of them, in one request_json
Attempts(b) == {k \in 1 .. Len(b.trace) : b.trace[k] = "request"}
Refreshes(b) ==
    {k \in 1 .. Len(b.trace) :
       /\ b.trace[k] = "fetch_token"
       /\ \E j \in Attempts(b) : j < k}

\* the first call of the request was made and was answered with HTTP 401
Expired == /\ output # <<>>
           /\ Attempts(output[1]) # {}
           /\ input.attempt[1] = "http_401"

\* the outcome of the token call made after the first call of the request
RefreshOutcome == input.fetch[IF input.api_token THEN 1 ELSE 2]

\* without an HTTP 401 the request is called once and its failure, if any,
\* is the failure of request_json; a request is called at most twice
C26_Otherwise ==
    output # <<>> =>
      LET b == output[1]
      IN  /\ Cardinality(Attempts(b)) <= 2
          /\ (Attempts(b) # {} /\ input.attempt[1] # "http_401") =>
               /\ Cardinality(Attempts(b)) = 1
               /\ Refreshes(b) = {}
               /\ b.exc = RaisedBy(input.attempt[1])

\* C26 (as stated): in one request_json, an HTTP 401 answer is followed by
\* exactly one token refresh and then exactly one retry of the call, whose
\* failure, if any, propagates; any other failure propagates without a
\* retry; a request is called at most twice.
C26_ExpiredRefreshesAndRetries ==
    /\ C26_Otherwise
    /\ Expired =>
         LET b == output[1]
         IN  /\ Cardinality(Refreshes(b)) = 1
             /\ Cardinality(Attempts(b)) = 2
             /\ b.trace[Len(b.trace)] = "request"
             /\ b.exc = RaisedBy(input.attempt[2])

\* C26 (amended): as above when the token refresh succeeds; when the refresh
\* itself fails, its failure propagates and the call is not retried.
C26_ExpiredRefreshesThenRetries ==
    /\ C26_Otherwise
    /\ Expired =>
         LET b == output[1]
         IN  /\ Cardinality(Refreshes(b)) = 1
             /\ IF RefreshOutcome = "token"
                THEN /\ Cardinality(Attempts(b)) = 2
                     /\ b.trace[Len(b.trace)] = "request"
                     /\ b.exc = RaisedBy(input.attempt[2])
                ELSE /\ Cardinality(Attempts(b)) = 1
                     /\ b.trace[Len(b.trace)] = "fetch_token"
                     /\ b.exc # "none"

\* a request made with a token is answered with 401, the token is
\* refreshed, and the retry fails with 401 again, which propagates
C26_Witness ==
    /\ Expired /\ input.api_token
    /\ output[1].trace = <<"request", "fetch_token", "request">>
    /\ output[1].exc = "HTTPError 401"

\* ------------------------------------------------------------------ C27
\* the call at position k submits the EXIT_MARKET order that starts a
\* forced exit
StartsForcedExit(t, k) ==
    /\ t.calls[k].op = "submit"
    /\ t.calls[k].role = "EXIT_MARKET"
    /\ t.calls[k].st # "FORCE_EXITING"

\* C27: the EXIT_MARKET order submitted when a forced exit starts (by
\* force_exit_market, by the market-close rule or after a failed sibling
\* cancel) has the quantity of the position still open: what was filled on
\* the entry order less what was filled on exit orders.
C27_ForcedExitSizedToOpenPosition ==
    Driving =>
      /\ \A t \in force_exit_market(Cur) : \A k \in Idx(t) :
           StartsForcedExit(t, k) => t.calls[k].qty = t.calls[k].open
      /\ \A n \in WallNow : \A t \in poll(Cur, n) : \A k \in Idx(t) :
           StartsForcedExit(t, k) => t.calls[k].qty = t.calls[k].open

\* ------------------------------------------------------------------ C28
\* the market-close rule has nothing to decide at wall-clock time n
OutsideConditions(n) ==
    \/ n < start_time
    \/ ~force_exit_use_market_close
    \/ state \in {"FORCE_EXITING", "EXIT_FILLED", "ERROR"}

\* C28: in a poll() tick executed before close - start_before_minutes, or
\* with force_exit_use_market_close = false, or in state FORCE_EXITING,
\* EXIT_FILLED or ERROR, the market-close step changes nothing and makes no
\* broker call: the tick is the polling step alone, so every broker call of
\* it is a status poll or follows one, and outside ENTRY_WAIT, EXIT_WAIT and
\* FORCE_EXITING the tick does nothing at all.
C28_NoPreemptionOutsideConditions ==
    Driving =>
      \A n \in WallSamples :
        OutsideConditions(n) =>
          /\ _maybe_force_exit_by_market_close(Cur, n) = {Cur}
          /\ \A t \in poll(Cur, n) :
               /\ \A k \in Idx(t) : InPollingStep(t, k)
               /\ state \notin PollingStates => t = Cur

\* in FORCE_EXITING with the rule switched on, a tick inside the window
\* leaves the forced exit as it is and goes on to poll the orders
C28_Witness ==
    /\ Driving /\ force_exit_use_market_close /\ state = "FORCE_EXITING"
    /\ InWindow(start_time)
    /\ _maybe_force_exit_by_market_close(Cur, start_time) = {Cur}
    /\ \E t \in poll(Cur, start_time) :
         Returned(t) /\ Polls(t) # {} /\ t.state = "FORCE_EXITING"

\* ------------------------------------------------------------------ C29
\* the orders a tick called now would poll
Pollable == {OrderValues(Cur)[k] : k \in 1 .. Len(order_keys)}
             \cap {j \in 1 .. Len(insts) : insts[j].status \notin TerminalStatus}

\* the second broker call of the operation, the first after the status
\* poll, is a cancel the broker refused
CancelRefused(s) ==
    /\ Len(s.calls) >= 2
    /\ s.calls[2].op = "cancel"
    /\ s.calls[2].res = "fail"

\* C29: when _handle_partial_fill, outside FORCE_EXITING, has the cancel of
\* the partially filled order refused, it sets the state to ERROR, creates
\* and submits no order and leaves the role map as it is, and reports the
\* event as handled, so the tick does not hand it to on_order_event; the
\* tick ends in ERROR, does not poll that order again and submits nothing
\* for its role.
C29_RefusedCancelInRemediation ==
    Driving =>
      /\ state # "FORCE_EXITING" =>
           \A i \in Pollable : \A u \in Order_poll_status(Cur, i) :
             (~u.raised /\ u.insts[i].status = "PARTIAL") =>
               \A r \in _handle_partial_fill(u, i) :
                 CancelRefused(r.s) =>
                   /\ r.s.state = "ERROR"
                   /\ r.s.raised \/ r.handled
                   /\ Len(r.s.insts) = Len(u.insts)
                   /\ r.s.orders = orders
                   /\ \A k \in 1 .. Len(r.s.calls) :
                        /\ r.s.calls[k].op # "submit"
                        /\ k > 2 => r.s.calls[k].op = "cancel"
      /\ \A n \in WallNow : \A t \in poll(Cur, n) :
           Returned(t) =>
             \A k \in Idx(t) :
               (/\ PartialAt(t, k)
                /\ k + 1 \in Idx(t)
                /\ t.calls[k + 1].res = "fail") =>
                 /\ t.state = "ERROR"
                 /\ \A j \in Idx(t) : j > k =>
                      /\ t.calls[j].op = "poll" =>
                           t.calls[j].inst # t.calls[k].inst
                      /\ t.calls[j].op = "submit" =>
                           t.calls[j].role # t.calls[k].role

\* a tick in EXIT_WAIT observes a bracket leg filled 1 of 2 and has its
\* cancel refused: it ends in ERROR with no order added
C29_Witness ==
    /\ Driving /\ state = "EXIT_WAIT"
    /\ \E n \in WallNow : \E t \in poll(Cur, n) :
         /\ Returned(t) /\ t.state = "ERROR"
         /\ Len(t.insts) = Len(insts)
         /\ \E k \in Idx(t) : /\ PartialAt(t, k)
                              /\ k + 1 \in Idx(t)
                              /\ t.calls[k + 1].op = "cancel"
                              /\ t.calls[k + 1].res = "fail"

\* ------------------------------------------------------------------ C30
\* the order i is partly filled by its record
PartlyFilled(s, i) ==
    0 < s.insts[i].filled_qty /\ s.insts[i].filled_qty < s.insts[i].qty

\* after the status poll that opened the operation, exactly one order was
\* created and submitted, an EXIT_MARKET order for what is left of order i,
\* which the role map now holds under EXIT_MARKET; order i got no cancel
\* request and the state is FORCE_EXITING
ToppedUp(u, s, i) ==
    LET n == Len(s.insts)
    IN  /\ n = Len(u.insts) + 1
        /\ Len(s.calls) = 2
        /\ s.calls[2].op = "submit"
        /\ s.calls[2].inst = n
        /\ s.insts[n].role = "EXIT_MARKET"
        /\ s.insts[n].order_type = "MARKET"
        /\ s.insts[n].qty = u.insts[i].qty - u.insts[i].filled_qty
        /\ s.orders = [u.orders EXCEPT !["EXIT_MARKET"] = n]
        /\ s.insts[i] = u.insts[i]
        /\ s.state = "FORCE_EXITING"

\* C30: in FORCE_EXITING, for an order polled PARTIAL: when it is partly
\* filled (0 < filled_qty < qty) exactly one new EXIT_MARKET order of
\* quantity qty - filled_qty is submitted, the partly filled order gets no
\* cancel request, the new order is the EXIT_MARKET entry of the role map
\* and the state stays FORCE_EXITING; when filled_qty <= 0 or
\* filled_qty >= qty nothing is done: no order, no broker call, no change.
C30_ForceExitPartialTopsUp ==
    (Driving /\ state = "FORCE_EXITING") =>
      \A i \in Pollable : \A u \in Order_poll_status(Cur, i) :
        (~u.raised /\ u.insts[i].status = "PARTIAL") =>
          IF PartlyFilled(u, i)
          THEN \A r \in _handle_partial_fill(u, i) :
                 ~r.s.over => (r.handled /\ ToppedUp(u, r.s, i))
          ELSE /\ _handle_partial_fill(u, i) = {[handled |-> FALSE, s |-> u]}
               /\ on_order_event(u, i, "PARTIAL") = {u}

\* in FORCE_EXITING an order is polled PARTIAL with 1 of 2 filled and the
\* EXIT_MARKET order for the other lot is submitted and accepted
C30_Witness ==
    /\ Driving /\ state = "FORCE_EXITING"
    /\ \E i \in Pollable : \E u \in Order_poll_status(Cur, i) :
         /\ ~u.raised /\ u.insts[i].status = "PARTIAL" /\ PartlyFilled(u, i)
         /\ \E r \in _handle_partial_fill(u, i) :
              /\ Returned(r.s) /\ ToppedUp(u, r.s, i)
              /\ r.s.insts[Len(r.s.insts)].status = "SENT"
              /\ r.s.insts[Len(r.s.insts)].qty = 1

\* ------------------------------------------------------------------ C31
\* C31: poll(), at any wall-clock time, and force_exit_market(), called
\* while the state is EXIT_FILLED or ERROR, make no broker call and change
\* nothing: the state, the role map, every order and the two forced-exit
\* timestamps are as before.
C31_FinishedTradeIsLeftAlone ==
    (Driving /\ state \in {"EXIT_FILLED", "ERROR"}) =>
      /\ \A n \in WallSamples : poll(Cur, n) = {Cur}
      /\ force_exit_market(Cur) = {Cur}

\* in ERROR, with the market-close rule switched on, while the role map
\* still holds an order that is working at the broker
C31_Witness ==
    /\ Driving /\ state = "ERROR" /\ force_exit_use_market_close
    /\ Pollable # {}
    /\ \A n \in WallSamples : \A t \in poll(Cur, n) : t.calls = <<>>
    /\ \A t \in force_exit_market(Cur) :
         t.calls = <<>> /\ t.state = "ERROR" /\ t.insts = insts

\* ------------------------------------------------------------------ C32
\* the last call of _confirm_order_filled had nothing to ask the broker
NothingToConfirm(o) ==
    \/ ~input
    \/ o.order_id = 0
    \/ o.order_id \in o.confirmed

\* C32: one call of _confirm_order_filled makes at most one broker call, a
\* status poll of its order; with reconcile_on_success false, for an order
\* without identifier and for an identifier already confirmed it returns
\* true and makes no broker call (so no call after the one that confirmed
\* an identifier polls for it again); otherwise it polls once, and the
\* identifier is remembered exactly when that poll reports FILLED, in which
\* case true is returned; a poll that reports another status returns false
\* and leaves the order in the status reported; no identifier is forgotten.
C32_ConfirmPollsOnceAndMemoizes ==
    output # <<>> =>
      LET o == output[1]
          polled == Len(o.calls) = 1
      IN  /\ Len(o.calls) <= 1
          /\ polled => (o.calls[1].op = "poll" /\ o.calls[1].inst = o.inst)
          /\ NothingToConfirm(o) <=> ~polled
          /\ NothingToConfirm(o) =>
               (o.ok /\ ~raised /\ _confirmed_order_ids = o.confirmed)
          /\ polled =>
               /\ o.calls[1].res = "FILLED" =>
                    /\ o.ok
                    /\ _confirmed_order_ids = o.confirmed \cup {o.order_id}
               /\ o.calls[1].res # "FILLED" =>
                    /\ ~o.ok
                    /\ _confirmed_order_ids = o.confirmed
               /\ o.calls[1].res # "raise" =>
                    insts[o.inst].status = o.calls[1].res
               /\ o.calls[1].res = "raise" <=> raised

\* with reconcile_on_success true, an identifier confirmed by an earlier
\* call is asked about again and true is returned without a broker call,
\* while the other order, polled CANCELED, stays unconfirmed
C32_Witness ==
    /\ input = TRUE /\ output # <<>>
    /\ output[1].order_id = 1 /\ output[1].confirmed = {1}
    /\ output[1].ok /\ output[1].calls = <<>>
    /\ insts[3].status = "CANCELED" /\ 2 \notin _confirmed_order_ids

\* ------------------------------------------------------------------ C33
\* the orders of the role map that are in a non-terminal status
Working == {r \in {order_keys[k] : k \in 1 .. Len(order_keys)} :
              insts[orders[r]].status \in {"NEW", "SENT", "PARTIAL"}}

\* C33: whenever an operation has returned and the state is EXIT_FILLED, no
\* order of the role map is in status NEW, SENT or PARTIAL.
C33_ExitFilledLeavesNothingWorking ==
    (Driving /\ state = "EXIT_FILLED") => Working = {}

\* ------------------------------------------------------------------ C34
\* the orders of the role map whose status is neither FILLED nor CANCELED
\* when the tick ends and that were sent no cancel request during the tick
NotCancelled(t) ==
    {r \in {t.order_keys[k] : k \in 1 .. Len(t.order_keys)} :
       /\ t.insts[t.orders[r]].status \notin {"FILLED", "CANCELED"}
       /\ CancelsOf(t, t.orders[r]) = {}}

\* C34: a poll() tick that starts in a state other than ERROR and returns in
\* ERROR has sent a cancel request to every order of the role map whose
\* status is not FILLED or CANCELED.
C34_ErrorTickCancelsEverything ==
    (Driving /\ state # "ERROR") =>
      \A n \in WallNow : \A t \in poll(Cur, n) :
        (Returned(t) /\ t.state = "ERROR") => NotCancelled(t) = {}

\* ------------------------------------------------------------------ C35
\* C35: once the state is FORCE_EXITING, no operation that returns in
\* FORCE_EXITING (a poll() tick or a further force_exit_market call) leaves
\* a watchdog start time later than the one recorded before it.
C35_WatchdogStartSetOnce ==
    (Driving /\ state = "FORCE_EXITING") =>
      /\ \A n \in WallNow : \A t \in poll(Cur, n) :
           (Returned(t) /\ t.state = "FORCE_EXITING") =>
             t.started_at <= force_exit_started_at
      /\ \A t \in force_exit_market(Cur) :
           (Returned(t) /\ t.state = "FORCE_EXITING") =>
             t.started_at <= force_exit_started_at

\* ------------------------------------------------------------------ C36
\* C36: whenever an operation has returned in EXIT_WAIT with both bracket
\* legs in the role map, the two legs have the same requested quantity and
\* it equals the quantity of the position still open.
C36_LegsSizedToOpenPosition ==
    (Driving /\ state = "EXIT_WAIT"
       /\ orders["EXIT_PROFIT"] # 0 /\ orders["EXIT_LOSS"] # 0) =>
      /\ insts[orders["EXIT_PROFIT"]].qty = insts[orders["EXIT_LOSS"]].qty
      /\ insts[orders["EXIT_PROFIT"]].qty = PositionOpen(Cur)

\* ------------------------------------------------------------------ C37
\* the position of a state in the order
\* IDLE < ENTRY_WAIT < ENTRY_FILLED < EXIT_WAIT < FORCE_EXITING
\*      < EXIT_FILLED < ERROR
Rank(st) ==
    CASE st = "IDLE" -> 0
      [] st = "ENTRY_WAIT" -> 1
      [] st = "ENTRY_FILLED" -> 2
      [] st = "EXIT_WAIT" -> 3
      [] st = "FORCE_EXITING" -> 4
      [] st = "EXIT_FILLED" -> 5
      [] st = "ERROR" -> 6

\* the state an operation ends in and the states in which it made its
\* broker calls are never earlier than the state seen just before
Forward(t) ==
    /\ Rank(t.state) >= Rank(state)
    /\ \A k \in Idx(t) : Rank(t.calls[k].st) >= Rank(state)
    /\ \A j, k \in Idx(t) : j < k => Rank(t.calls[j].st) <= Rank(t.calls[k].st)
    /\ \A k \in Idx(t) : Rank(t.calls[k].st) <= Rank(t.state)

\* C37: no operation (start_trade, a poll() tick, force_exit_market) moves
\* the state to an earlier one of the order above, neither when it ends nor
\* between two of its broker calls; in particular ERROR is never left.
C37_StateOnlyMovesForward ==
    Driving =>
      /\ \A n \in WallNow : \A t \in poll(Cur, n) : ~t.over => Forward(t)
      /\ \A t \in force_exit_market(Cur) : ~t.over => Forward(t)
      /\ \A e \in EntryOrders, pp \in ProfitPrices, lp \in LossPrices :
           \A t \in start_trade(Cur, e, pp, lp) : ~t.over => Forward(t)


\* a tick that starts in EXIT_WAIT, makes a broker call in FORCE_EXITING
\* (the forced exit after a refused cancel) and ends in EXIT_FILLED
C37_Witness ==
    /\ Driving /\ state = "EXIT_WAIT"
    /\ \E n \in WallNow : \E t \in poll(Cur, n) :
         /\ Returned(t) /\ t.state = "EXIT_FILLED"
         /\ \E k \in Idx(t) : t.calls[k].st = "FORCE_EXITING"
         /\ Forward(t)

\* ------------------------------------------------------------------ C38
ExitRoles == {"EXIT_PROFIT", "EXIT_LOSS", "EXIT_MARKET"}

\* an order of role ENTRY is recorded FILLED among the first n orders
EntryFilledAmong(t, n) ==
    \E j \in 1 .. n : t.insts[j].role = "ENTRY" /\ t.insts[j].status = "FILLED"

\* every exit-side order the operation created, and every submit of an
\* exit-side order it made, comes after an ENTRY order was observed FILLED
ExitsFollowEntryFill(t) ==
    /\ \A j \in 1 .. Len(t.insts) :
         t.insts[j].role \in ExitRoles => EntryFilledAmong(t, j - 1)
    /\ \A k \in Idx(t) :
         (t.calls[k].op = "submit" /\ t.calls[k].role \in ExitRoles) =>
           /\ t.calls[k].st \notin {"IDLE", "ENTRY_WAIT"}
           /\ EntryFilledAmong(t, t.calls[k].inst - 1)

\* C38: an order of role EXIT_PROFIT, EXIT_LOSS or EXIT_MARKET is created or
\* submitted by an operation only when an order of role ENTRY has been
\* observed FILLED before; while the state is IDLE or ENTRY_WAIT no exit-side
\* order exists.
C38_NoExitBeforeEntryFill ==
    /\ \A j \in 1 .. Len(insts) :
         insts[j].role \in ExitRoles => EntryFilledAmong(Cur, j - 1)
    /\ state \in {"IDLE", "ENTRY_WAIT"} =>
         \A j \in 1 .. Len(insts) : insts[j].role \notin ExitRoles
    /\ Driving =>
         /\ \A n \in WallNow : \A t \in poll(Cur, n) : ExitsFollowEntryFill(t)
         /\ \A t \in force_exit_market(Cur) : ExitsFollowEntryFill(t)
         /\ \A e \in EntryOrders, pp \in ProfitPrices, lp \in LossPrices :
              \A t \in start_trade(Cur, e, pp, lp) : ExitsFollowEntryFill(t)


\* a tick in ENTRY_WAIT observes the entry order FILLED and submits the two
\* bracket legs
C38_Witness ==
    /\ Driving /\ state = "ENTRY_WAIT"
    /\ \A j \in 1 .. Len(insts) : insts[j].role = "ENTRY"
    /\ \E n \in WallNow : \E t \in poll(Cur, n) :
         /\ Returned(t) /\ t.state = "EXIT_WAIT"
         /\ \E k \in Idx(t) : t.calls[k].op = "submit"
                              /\ t.calls[k].role = "EXIT_PROFIT"
         /\ \E k \in Idx(t) : t.calls[k].op = "submit"
                              /\ t.calls[k].role = "EXIT_LOSS"
         /\ ExitsFollowEntryFill(t)

\* ------------------------------------------------------------------ C39
\* a tick from this state would need more orders than MaxOrders
AtBound == \E n \in WallNow : \E t \in poll(Cur, n) : t.over

\* C39: with the market-close rule off, a driver that keeps calling poll()
\* and a broker that ends up reporting a terminal status for every order it
\* accepted, a trade in ENTRY_WAIT or EXIT_WAIT eventually reaches
\* EXIT_FILLED or ERROR (an exception that ends the loop and the bound on
\* the number of orders aside).
C39_StartedTradeTerminates ==
    (state \in {"ENTRY_WAIT", "EXIT_WAIT"})
      ~> (state \in {"EXIT_FILLED", "ERROR"} \/ raised \/ AtBound)

\* ------------------------------------------------------------------ C40
\* the order of a role in the role map has the status
RoleStatus(role, status) ==
    orders[role] # 0 /\ insts[orders[role]].status = status

\* what holds after every tick of run_demo(fills_after_polls = n): the
\* entry order is FILLED from tick n + 1 on and not before; the state is
\* EXIT_FILLED after tick 2(n + 1) and not before, with EXIT_LOSS FILLED and
\* EXIT_PROFIT CANCELED; no tick follows; ERROR and exceptions do not occur
DemoRun ==
    LET n == fills_after_polls
        ticks == Len(output)
    IN  /\ state # "ERROR" /\ ~raised
        /\ ticks <= 2 * (n + 1)
        /\ state # "IDLE" =>
             (RoleStatus("ENTRY", "FILLED") <=> ticks >= n + 1)
        /\ state = "EXIT_FILLED" <=> ticks = 2 * (n + 1)
        /\ state = "EXIT_FILLED" =>
             /\ RoleStatus("EXIT_LOSS", "FILLED")
             /\ RoleStatus("EXIT_PROFIT", "CANCELED")

\* C40: with DemoBroker(fills_after_polls = n) and the market-close rule
\* off, start_trade followed by poll() ticks ends in EXIT_FILLED: the entry
\* order is observed FILLED on tick n + 1, the state becomes EXIT_FILLED on
\* tick 2(n + 1) with EXIT_LOSS FILLED and EXIT_PROFIT CANCELED, and ERROR
\* is never reached.
C40_DemoRunTerminates ==
    /\ []DemoRun
    /\ <>(state = "EXIT_FILLED")

\* run_demo(fills_after_polls = 2) has ended after its sixth tick, the entry
\* order having been FILLED since the third
C40_Witness ==
    /\ fills_after_polls = 2
    /\ Len(output) = 6
    /\ output[2] = "ENTRY_WAIT" /\ output[3] = "EXIT_WAIT"
    /\ output[5] = "EXIT_WAIT" /\ output[6] = "EXIT_FILLED"
    /\ RoleStatus("EXIT_LOSS", "FILLED")
    /\ RoleStatus("EXIT_PROFIT", "CANCELED")

====
